---- MODULE Spec2Model ----
(***************************************************************************)
(* A model of svnex.py, the Subversion to Git fast-import exporter:        *)
(* the Exporter (known-branch index, export loop, commit), the pending     *)
(* segment planner, the revision iterator over the log and the fast-export *)
(* sink (marks, blobs, output lines).                                      *)
(*                                                                         *)
(* Strings that the code slices or compares (paths) are sequences of       *)
(* one-character strings, so that startswith, rstrip, lstrip and           *)
(* parse_path are computed as the code computes them.                      *)
(***************************************************************************)
EXTENDS Integers, Sequences, FiniteSets, TLC

\* Number of revisions in the log (and in the dump) of a session.
MaxRev == 3
\* Number of Exporter.export calls made on one Exporter.
MaxCalls == 2

(***************************************************************************)
(* Python values                                                           *)
(***************************************************************************)

\* A GitRef: a mark ":N" issued by the sink, a name or hash read from the
\* revision map, or Python's None.
None == [k |-> "none", n |-> 0]
MarkRef(n) == [k |-> "mark", n |-> n]
SeedRef(n) == [k |-> "ref", n |-> n]

\* The empty string, used for an absent copyfrom-path attribute.
NoPath == << >>

Max(a, b) == IF a >= b THEN a ELSE b

\* Code points of the characters that occur in paths, for str comparison.
Ord(c) ==
    CASE c = "/" -> 47
      [] c = "f" -> 102
      [] c = "g" -> 103
      [] c = "t" -> 116
      [] c = "x" -> 120

\* str.startswith
StartsWith(s, p) == Len(s) >= Len(p) /\ SubSeq(s, 1, Len(p)) = p

\* str > str (lexicographic by code point)
RECURSIVE StrGreater(_, _)
StrGreater(a, b) ==
    IF a = << >> THEN FALSE
    ELSE IF b = << >> THEN TRUE
    ELSE IF Head(a) # Head(b) THEN Ord(Head(a)) > Ord(Head(b))
    ELSE StrGreater(Tail(a), Tail(b))

\* str.rstrip("/")
RECURSIVE RStripSlash(_)
RStripSlash(s) ==
    IF s # << >> /\ s[Len(s)] = "/" THEN RStripSlash(SubSeq(s, 1, Len(s) - 1))
    ELSE s

\* str.lstrip("/")
RECURSIVE LStripSlash(_)
LStripSlash(s) ==
    IF s # << >> /\ s[1] = "/" THEN LStripSlash(Tail(s)) ELSE s

\* str.split("/")
RECURSIVE SplitSlash(_, _)
SplitSlash(s, cur) ==
    IF s = << >> THEN <<cur>>
    ELSE IF Head(s) = "/" THEN <<cur>> \o SplitSlash(Tail(s), << >>)
    ELSE SplitSlash(Tail(s), Append(cur, Head(s)))

\* _common.parse_path; its two assertions hold of every path of the model.
parse_path(path) ==
    IF path = <<"/">> THEN << >> ELSE SplitSlash(Tail(path), << >>)

\* tuple[:n]
Take(t, n) == SubSeq(t, 1, IF n < Len(t) THEN n ELSE Len(t))

\* bisect.bisect_right(a, x): the binary search of the library, which is
\* defined on any list, sorted or not.
RECURSIVE BisectRight(_, _, _, _)
BisectRight(a, x, lo, hi) ==
    IF lo >= hi THEN lo
    ELSE LET mid == (lo + hi) \div 2
         IN  IF x < a[mid + 1] THEN BisectRight(a, x, lo, mid)
             ELSE BisectRight(a, x, mid + 1, hi)

\* A search that looks at the first element only.
BisectFirst(a, x) == IF a # << >> /\ a[1] <= x THEN 1 ELSE 0

bisect_right(a, x) == BisectRight(a, x, 0, Len(a))

\* bisect.bisect_left(a, x)
RECURSIVE BisectLeft(_, _, _, _)
BisectLeft(a, x, lo, hi) ==
    IF lo >= hi THEN lo
    ELSE LET mid == (lo + hi) \div 2
         IN  IF a[mid + 1] < x THEN BisectLeft(a, x, mid + 1, hi)
             ELSE BisectLeft(a, x, lo, mid)
bisect_left(a, x) == BisectLeft(a, x, 0, Len(a))

\* list.insert(i, v) with a 0-based index i
InsertAt(s, i, v) == SubSeq(s, 1, i) \o <<v>> \o SubSeq(s, i + 1, Len(s))

\* reversed(list)
Reverse(s) == [i \in 1..Len(s) |-> s[Len(s) + 1 - i]]

(***************************************************************************)
(* The inputs: the log (svn log --xml -v, youngest entry first) and the    *)
(* dump of the same repository.                                            *)
(***************************************************************************)

PT == <<"/", "t">>                  \* the branch directory /t
PTF == <<"/", "t", "/", "f">>       \* a file of the branch
PTG == <<"/", "t", "/", "g">>       \* another file of the branch
PTX == <<"/", "t", "x">>            \* a sibling directory /tx
PRoot == <<"/">>

FilePaths == {PTF, PTG}

\* One <path> element of a log entry: its text and three attributes
\* (cfpath = NoPath and cfrev = 0 stand for an absent attribute).
PathEl(text, action, cfpath, cfrev) ==
    [text |-> text, action |-> action, cfpath |-> cfpath, cfrev |-> cfrev]

\* The <paths> a revision may have.  "none" is an entry without <paths>.
\* "halfcopy" is a copy whose <path> lacks the copyfrom-rev attribute;
\* "copyX" copies /t to /tx and "mergeT" is the merge of test_merge: a
\* change of the properties of /t together with a change of /t/f.
ChangeKinds ==
    {"none", "addT", "addTF", "addF", "modF", "delF", "propT",
     "addX", "copyT", "halfcopyT", "copyX", "mergeT"}

PathsOf(kind) ==
    CASE kind = "none" -> << >>
      [] kind = "addT" -> <<PathEl(PT, "A", NoPath, 0)>>
      [] kind = "addTF" -> <<PathEl(PT, "A", NoPath, 0),
                             PathEl(PTF, "A", NoPath, 0),
                             PathEl(PTG, "A", NoPath, 0)>>
      [] kind = "addF" -> <<PathEl(PTF, "A", NoPath, 0)>>
      [] kind = "modF" -> <<PathEl(PTF, "M", NoPath, 0)>>
      [] kind = "delF" -> <<PathEl(PTF, "D", NoPath, 0)>>
      [] kind = "propT" -> <<PathEl(PT, "M", NoPath, 0)>>
      [] kind = "addX" -> <<PathEl(PTX, "A", NoPath, 0)>>
      [] kind = "copyT" -> <<PathEl(PT, "A", PTX, 1)>>
      [] kind = "halfcopyT" -> <<PathEl(PT, "A", PTX, 0)>>
      [] kind = "copyX" -> <<PathEl(PTX, "A", PT, 1)>>
      [] kind = "mergeT" -> <<PathEl(PT, "M", NoPath, 0),
                              PathEl(PTF, "M", NoPath, 0)>>

\* The directory holding a path.
Parent(p) ==
    LET cut == CHOOSE i \in 1..Len(p) :
                   p[i] = "/" /\ \A j \in (i + 1)..Len(p) : p[j] # "/"
    IN  IF cut = 1 THEN PRoot ELSE SubSeq(p, 1, cut - 1)

Below(p, d) == StartsWith(p, RStripSlash(d) \o <<"/">>)

\* The repository tree after one change; ok is FALSE when the change
\* cannot happen in that tree (adding what exists, changing what does not).
ApplyChange(tree, el) ==
    IF ~tree.ok THEN tree
    ELSE IF el.action = "A" THEN
        IF el.text \in tree.ps \/ Parent(el.text) \notin tree.ps
           \/ (el.cfpath # NoPath /\ el.cfpath \notin tree.ps)
        THEN [tree EXCEPT !.ok = FALSE]
        ELSE [tree EXCEPT !.ps = @ \cup {el.text}]
    ELSE IF el.text \notin tree.ps THEN [tree EXCEPT !.ok = FALSE]
    ELSE IF el.action = "D"
        THEN [tree EXCEPT !.ps = {p \in @ : p # el.text /\ ~Below(p, el.text)}]
    ELSE tree

RECURSIVE ApplyChanges(_, _)
ApplyChanges(tree, els) ==
    IF els = << >> THEN tree
    ELSE ApplyChanges(ApplyChange(tree, Head(els)), Tail(els))

\* The tree after revisions 1..r of a history (a function from revision
\* to change kind).
RECURSIVE TreeAfter(_, _)
TreeAfter(h, r) ==
    IF r = 0 THEN [ok |-> TRUE, ps |-> {PRoot}]
    ELSE ApplyChanges(TreeAfter(h, r - 1), PathsOf(h[r]))

\* Histories a repository can have.  A copy names revision 1 as its source,
\* so /tx was added in revision 1 for a copy to /t, and /tx is copied in
\* revision 2 from /t; a merge records "/tx:2", so it follows that copy.
Histories ==
    {h \in [1..MaxRev -> ChangeKinds] :
        /\ TreeAfter(h, MaxRev).ok
        /\ \A r \in 1..MaxRev : h[r] = "copyT" => h[1] = "addX"
        /\ \A r \in 1..MaxRev : h[r] = "copyX" => r = 2
        /\ \A r \in 1..MaxRev : h[r] = "mergeT" => r > 2 /\ h[2] = "copyX"}

\* The log element of the XML document for a history: <logentry> elements,
\* youngest first, each with its revision attribute, an <author> element
\* in the odd revisions and none ("") in the even ones, and <paths> unless
\* the revision is of kind "none".
AuthorOf(r) == IF r % 2 = 1 THEN "user" ELSE ""

LogOf(h) ==
    [i \in 1..MaxRev |->
        LET r == MaxRev + 1 - i
        IN  [revision |-> r,
             author |-> AuthorOf(r),
             haspaths |-> h[r] # "none",
             paths |-> PathsOf(h[r])]]

\* The records of the dump after its version and UUID records: for each
\* revision a revision record, then one node record per changed path.
\* File nodes carry literal contents (no Text-delta); the contents of a file
\* written in revision r are the single byte r.  The node that adds /t/g has
\* a property block that sets svn:executable and the node that changes /t a
\* property block that sets svn:mergeinfo to "/tx:2", the other nodes have
\* none; the body of a node is its property block followed by its text.
PROP_EXECUTABLE == "svn:executable"
PROP_MERGEINFO == "svn:mergeinfo"

NodeProps(el) ==
    IF el.action = "A" /\ el.text = PTG THEN <<PROP_EXECUTABLE>>
    ELSE IF el.action = "M" /\ el.text = PT THEN <<PROP_MERGEINFO>>
    ELSE << >>

NodeAction(a) ==
    CASE a = "A" -> "add" [] a = "M" -> "change"
      [] a = "D" -> "delete" [] a = "R" -> "replace"

NodeOf(el, r) ==
    [rec |-> "node",
     path |-> Tail(el.text),
     action |-> NodeAction(el.action),
     kind |-> IF el.action = "D" THEN ""
              ELSE IF el.text \in FilePaths THEN "file" ELSE "dir",
     proplen |-> Len(NodeProps(el)),
     textdelta |-> FALSE,
     body |-> NodeProps(el)
              \o (IF el.action # "D" /\ el.text \in FilePaths THEN <<r>>
                  ELSE << >>)]

RevRecord(r) == [rec |-> "rev", number |-> r, log |-> << >>]

RECURSIVE DumpFrom(_, _)
DumpFrom(h, r) ==
    IF r > MaxRev THEN << >>
    ELSE <<RevRecord(r)>>
         \o [j \in 1..Len(PathsOf(h[r])) |-> NodeOf(PathsOf(h[r])[j], r)]
         \o DumpFrom(h, r + 1)

DumpOf(h) == DumpFrom(h, 1)

(***************************************************************************)
(* Exporter.__init__: the known-branch index built from the revision map   *)
(***************************************************************************)

\* The branch names of the model: the root (""), "t" and "tx".
Branches == {<< >>, <<"t">>, <<"t", "x">>}

\* known_branches is a defaultdict: every branch has (starts, runs).
EmptyKnown == [b \in Branches |-> [starts |-> << >>, runs |-> << >>]]

\* sorted(revs.items()): the revisions of one branch of the map, ascending,
\* each with its Git revision.
RECURSIVE SortedRevs(_)
SortedRevs(revs) ==
    IF revs = {} THEN << >>
    ELSE LET m == CHOOSE r \in revs : \A q \in revs : r <= q
         IN  <<m>> \o SortedRevs(revs \ {m})

\* The loop over sorted(revs.items()) for one branch.  st.start = -1 stands
\* for the initial start = None, which no svnrev - len(run) equals.
RECURSIVE AddRuns(_, _)
AddRuns(st, items) ==
    IF items = << >> THEN st
    ELSE LET svnrev == Head(items)
             runlen == IF st.fresh THEN 0 ELSE Len(st.runs[Len(st.runs)])
             newrun == st.fresh \/ svnrev - runlen # st.start
             st1 == IF newrun
                    THEN [st EXCEPT !.start = svnrev, !.fresh = FALSE,
                                    !.starts = Append(@, svnrev),
                                    !.runs = Append(@, <<SeedRef(svnrev)>>)]
                    ELSE [st EXCEPT !.runs[Len(st.runs)] =
                                        Append(@, SeedRef(svnrev))]
         IN  AddRuns(st1, Tail(items))

\* The loop over rev_map.items(): rev_map is a sequence of
\* [branch |-> key, revs |-> set of revisions] in dict order.
RECURSIVE InitKnown(_, _)
InitKnown(known, rev_map) ==
    IF rev_map = << >> THEN known
    ELSE LET item == Head(rev_map)
             branch == LStripSlash(item.branch)
             st == AddRuns([starts |-> known[branch].starts,
                            runs |-> known[branch].runs,
                            start |-> -1, fresh |-> TRUE],
                           SortedRevs(item.revs))
         IN  InitKnown([known EXCEPT ![branch] =
                            [starts |-> st.starts, runs |-> st.runs]],
                       Tail(rev_map))

(***************************************************************************)
(* iter_location_segments, PendingSegments, ExportRevs                     *)
(***************************************************************************)

\* rev=None of export and iter_location_segments.
NoRev == -2

\* The for loop of iter_location_segments over the log entries (document
\* order), from entry i on.  Yields found (a <path> whose text without
\* leading slashes is the branch), the revision of the entry the loop
\* stopped at, and rev (set from the first entry when it was None).
RECURSIVE LocationScan(_, _, _, _)
LocationScan(log, path, rev, i) ==
    IF i > Len(log)
    THEN [err |-> "", found |-> FALSE, el |-> PathEl(NoPath, "", NoPath, 0),
          entry_rev |-> IF Len(log) = 0 THEN NoRev ELSE log[Len(log)].revision,
          rev |-> rev]
    ELSE LET entry == log[i]
             entry_rev == entry.revision
             rev1 == IF rev = NoRev THEN entry_rev ELSE rev
             hits == {j \in 1..Len(entry.paths) :
                         LStripSlash(entry.paths[j].text) = path}
         IN  IF entry_rev > rev1 THEN LocationScan(log, path, rev1, i + 1)
             ELSE IF ~entry.haspaths THEN LocationScan(log, path, rev1, i + 1)
             ELSE IF Cardinality(hits) > 1
                 THEN [err |-> "AssertionError", found |-> FALSE,
                       el |-> PathEl(NoPath, "", NoPath, 0),
                       entry_rev |-> entry_rev, rev |-> rev1]
             ELSE IF hits # {}
                 THEN [err |-> "", found |-> TRUE,
                       el |-> entry.paths[CHOOSE j \in hits : TRUE],
                       entry_rev |-> entry_rev, rev |-> rev1]
             ELSE LocationScan(log, path, rev1, i + 1)

\* iter_location_segments(exporter, path, rev): the segments it yields
\* (at most one: (entry_rev, rev, path)), or the exception it raises.
iter_location_segments(log, path, rev) ==
    LET sc == LocationScan(log, path, rev, 1)
        entry_rev == IF sc.found THEN sc.entry_rev ELSE 0
    IN  IF sc.err # "" THEN [err |-> sc.err, segs |-> << >>]
        ELSE IF ~sc.found /\ path # << >>
            THEN [err |-> "LookupError", segs |-> << >>]
        ELSE IF sc.found /\ (sc.el.action # "A" \/ sc.el.cfrev # 0)
            THEN [err |-> "AssertionError", segs |-> << >>]
        ELSE [err |-> "",
              segs |-> <<[start |-> entry_rev, end |-> sc.rev, path |-> path]>>]

\* The first revision of the run taken for its last.
RunBaseFirst(kstart, run) == kstart

\* RunBase without the - 1 of line 445: the revision after the run.
RunBaseNext(kstart, run) == kstart + Len(run)

\* Line 445: the last imported revision of the run that starts at kstart.
RunBase(kstart, run) == kstart + Len(run) - 1

\* PendingSegments.__init__: the loop over the location segments (youngest
\* first), with the plan built so far.  plan.segments is self.segments,
\* (plan.base_rev, plan.base_path) is self.base, plan.git_base is
\* self.git_base (None while the attribute is not set).
RECURSIVE PlanScan(_, _, _)
PlanScan(known, segs, plan) ==
    IF segs = << >> THEN plan
    ELSE LET seg == Head(segs)
             kstarts == known[seg.path].starts
             runs == known[seg.path].runs
             i == bisect_right(kstarts, seg.end)
             run == runs[i]
             base == RunBase(kstarts[i], run)
         IN  IF i # 0 /\ base >= seg.start
             THEN [plan EXCEPT
                     !.segments =
                         IF base < seg.end
                         THEN Append(@, [base |-> base, end |-> seg.end,
                                         path |-> seg.path])
                         ELSE @,
                     !.base_rev = base,
                     !.base_path = seg.path,
                     !.git_base = run[Len(run)],
                     !.anchored = TRUE]
             ELSE PlanScan(known, Tail(segs),
                     [plan EXCEPT !.segments =
                         Append(@, [base |-> seg.start - 1, end |-> seg.end,
                                    path |-> seg.path])])

PendingSegments(known, segs) ==
    PlanScan(known, segs,
        [segments |-> << >>, base_rev |-> 0, base_path |-> << >>,
         git_base |-> None, anchored |-> FALSE])

\* The test of the changed paths taking any changed path for one of the
\* branch.
TouchesAny(paths, path_tuple) == Len(paths) > 0

\* any(parse_path(p.text)[:len(path_tuple)] == path_tuple for p in paths)
TouchesPath(paths, path_tuple) ==
    \E j \in 1..Len(paths) :
        Take(parse_path(paths[j].text), Len(path_tuple)) = path_tuple

\* The inner for loop of ExportRevs over the shared iterator `entries`
\* (the log reversed), from position i: the position of the entry it breaks
\* at with found set, or 0 when it ends or breaks without.
RECURSIVE NextRev(_, _, _, _, _)
NextRev(entries, i, next, end, path_tuple) ==
    IF i > Len(entries) THEN 0
    ELSE LET entry == entries[i]
             rev == entry.revision
         IN  IF rev < next THEN NextRev(entries, i + 1, next, end, path_tuple)
             ELSE IF ~entry.haspaths
                 THEN NextRev(entries, i + 1, next, end, path_tuple)
             ELSE IF rev > end THEN 0
             ELSE IF TouchesPath(entry.paths, path_tuple) THEN i
             ELSE NextRev(entries, i + 1, next, end, path_tuple)

\* The while loop of ExportRevs: the revisions it yields, in order, each as
\* (rev, author, path_map); path_map keeps the order of the <path> elements.
RECURSIVE RevsWhile(_, _, _, _, _)
RevsWhile(entries, i, rev, end, path_tuple) ==
    IF ~(rev < end) THEN << >>
    ELSE LET j == NextRev(entries, i, rev + 1, end, path_tuple)
         IN  IF j = 0 THEN << >>
             ELSE <<[svnrev |-> entries[j].revision,
                     author |-> IF entries[j].author = "" THEN "(no author)"
                                ELSE entries[j].author,
                     paths |-> entries[j].paths]>>
                  \o RevsWhile(entries, j + 1, entries[j].revision, end,
                               path_tuple)

\* ExportRevs yielding its revisions youngest first.
ExportRevsYoungestFirst(log, path, base, end) ==
    Reverse(RevsWhile(Reverse(log), 1, Max(base, 0), end, parse_path(path)))

ExportRevs(log, path, base, end) ==
    RevsWhile(Reverse(log), 1, Max(base, 0), end, parse_path(path))

(***************************************************************************)
(* The fast-export sink (FastExport, FastExportFile)                       *)
(***************************************************************************)

\* The lines printf writes, and the raw bytes file.write writes.
LBlob == [op |-> "blob"]
LMark(n) == [op |-> "mark", mark |-> n]
LData(len) == [op |-> "data", len |-> len]
LRaw(bytes) == [op |-> "raw", bytes |-> bytes]
LMessage(msg) == [op |-> "message", msg |-> msg]
LBlank == [op |-> "blank"]
LCommit(ref) == [op |-> "commit", name |-> ref]
LCommitter(ident, date) == [op |-> "committer", ident |-> ident, date |-> date]
LFrom(gitrev) == [op |-> "from", ref |-> gitrev]
LMerge(gitrev) == [op |-> "merge", ref |-> gitrev]
LReset(ref) == [op |-> "reset", name |-> ref]
LModify(mode, mark, path) ==
    [op |-> "M", mode |-> mode, mark |-> mark, path |-> path]

\* FastExport.newmark: the mark is ":N" for N = nextmark, and nextmark
\* afterwards.
NewMarkValue(nextmark) == nextmark
NewMarkSame(nextmark) == nextmark
NewMarkNext(nextmark) == nextmark + 1

\* self.files.get(path, (None, None))[0]; 0 stands for None.
FileMark(files, path) ==
    IF path \in DOMAIN files THEN files[path].mark ELSE 0

\* self.files[path] = value
SetFile(files, path, value) ==
    [q \in DOMAIN files \cup {path} |-> IF q = path THEN value ELSE files[q]]

\* The file of FastExportFile is a sequence of cells: one for each line
\* printf writes and one for the bytes of each blob.  Writing cells at
\* position pos (the number of cells before it) replaces the cells that are
\* there and extends the file past its end.
WriteAt(file, pos, cells) ==
    SubSeq(file, 1, pos) \o cells
    \o SubSeq(file, pos + Len(cells) + 1, Len(file))

\* FastExportFile.blob(path, buf) on a sink sk = [nextmark, files, filedata,
\* base, out, blob, err], where out holds the cells of the file from cell
\* base + 1 on: the file is positioned at its end, blob_header reuses the
\* mark of the path or takes a new one (and cannot unpack the 1-tuple it
\* stored itself: mode ""), the place of the bytes is kept in filedata,
\* then the bytes and an empty line are written.
SinkBlob(sk, path, buf) ==
    LET old == FileMark(sk.files, path)
        mark == IF old = 0 THEN NewMarkValue(sk.nextmark) ELSE old
    IN  IF path \in DOMAIN sk.files /\ sk.files[path].mode = ""
        THEN [sk EXCEPT !.err = "ValueError"]
        ELSE [sk EXCEPT
            !.nextmark = IF old = 0 THEN NewMarkNext(@) ELSE @,
            !.files = IF old = 0
                      THEN SetFile(@, path, [mark |-> mark, mode |-> ""])
                      ELSE @,
            !.filedata = SetFile(@, mark,
                             [pos |-> sk.base + Len(sk.out) + 3,
                              len |-> Len(buf)]),
            !.out = @ \o <<LBlob, LMark(mark), LData(Len(buf)), LRaw(buf),
                           LBlank>>,
            !.blob = mark]

\* The mode written in an M edit (line 356-357).
EditMode == "644"

\* Lines 313 and 355-356 of commit for the file node p of the branch with
\* the given prefix: the blob is written under the path relative to the
\* prefix and (blob, "644") is stored for that path.
StoreFile(sk1, rel) ==
    IF sk1.err # "" THEN sk1
    ELSE [sk1 EXCEPT !.files = SetFile(@, rel, [mark |-> sk1.blob,
                                                 mode |-> EditMode])]

FileNode(sk, prefix, p, target) ==
    StoreFile(SinkBlob(sk, SubSeq(p, Len(prefix) + 1, Len(p)), target),
              SubSeq(p, Len(prefix) + 1, Len(p)))

\* iter(cat_blob(blob)): FileArray.__iter__ seeks to the place kept for
\* the mark and reads; the cell it finds there and the position it leaves.
CatBlob(file, filedata, blob) ==
    [cell |-> file[filedata[blob].pos + 1], pos |-> filedata[blob].pos + 1]

(***************************************************************************)
(* Exporter.commit                                                         *)
(***************************************************************************)

\* Configuration of a session: the arguments of Exporter.__init__.
VARIABLES
    ignore,         \* Exporter.ignore: set of branch-relative paths
    git_svn,        \* Exporter.git_svn
    author_map      \* Exporter.author_map: None, or [k |-> "map", n |-> m]
                    \* for the dict m from author names to identities

uuid == "uuid"

NoHeader == [rec |-> "none"]        \* self._header = None
EofRecord == [rec |-> "eof"]        \* the record read at the end of the dump

\* read_record(self.dump) at position pos (1-based).
ReadRecord(dump, pos) == IF pos <= Len(dump) THEN dump[pos] ELSE EofRecord

\* Lines 235-243: a deleted or replaced path below the prefix that is not
\* ignored reaches dir.delete_entry, and dir is the builtin function.
Ignored(file) ==
    \E j \in 1..Len(ignore) :
        file = ignore[j] \/ StartsWith(file, LStripSlash(ignore[j] \o <<"/">>))

DeleteReached(paths, prefix) ==
    \E j \in 1..Len(paths) :
        /\ StartsWith(paths[j].text, prefix)
        /\ paths[j].action \in {"D", "R"}
        /\ ~Ignored(SubSeq(paths[j].text, Len(prefix) + 1, Len(paths[j].text)))

\* Lines 245-263: read records up to the revision record rev.  st is the
\* commit's working state; st.err is set when an exception is raised.
RECURSIVE FindRevision(_, _, _)
FindRevision(dump, st, rev) ==
    LET fresh == st.header = NoHeader
        header == IF fresh THEN ReadRecord(dump, st.pos) ELSE st.header
        st1 == [st EXCEPT !.pos = IF fresh THEN @ + 1 ELSE @,
                          !.header = NoHeader,
                          !.content = header]
    IN  IF header.rec = "node" THEN FindRevision(dump, st1, rev)
        ELSE IF header.rec = "eof" THEN [st1 EXCEPT !.err = "TypeError"]
        ELSE IF header.number >= rev
            THEN IF header.number # rev
                 THEN [st1 EXCEPT !.err = "LookupError"]
                 ELSE st1
        ELSE FindRevision(dump, st1, rev)

\* dict.pop(p) on the path map: the element and the map without it.
PathIndex(paths, p) ==
    IF \E j \in 1..Len(paths) : paths[j].text = p
    THEN CHOOSE j \in 1..Len(paths) : paths[j].text = p
    ELSE 0
RemoveAt(s, j) == SubSeq(s, 1, j - 1) \o SubSeq(s, j + 1, Len(s))

\* Lines 284-358: the loop over the node records of the revision.
RECURSIVE NodeLoop(_, _, _, _)

\* Lines 355-357 for a file node, sk being the sink after lines 355-356,
\* and the rest of the loop.
NodeFile(dump, st2, sk, rel, path, prefix) ==
    IF sk.err # "" THEN [st2 EXCEPT !.err = sk.err]
    ELSE NodeLoop(dump,
            [st2 EXCEPT
                !.nextmark = sk.nextmark,
                !.out = sk.out,
                !.files = sk.files,
                !.filedata = sk.filedata,
                !.edits = Append(@, LModify(EditMode, sk.blob, rel))],
            path, prefix)

NodeLoop(dump, st, path, prefix) ==
    LET rec == ReadRecord(dump, st.pos)
        st1 == [st EXCEPT !.pos = @ + 1, !.header = rec, !.content = rec]
    IN  IF rec.rec # "node" THEN st1
        ELSE
        LET p == <<"/">> \o rec.path
            j == PathIndex(st.paths, p)
            el == st.paths[j]
            st2 == [st1 EXCEPT !.paths = RemoveAt(@, j)]
            rel == SubSeq(p, Len(prefix) + 1, Len(p))
            target == SubSeq(rec.body, rec.proplen + 1, Len(rec.body))
            sk == FileNode([nextmark |-> st2.nextmark, files |-> st2.files,
                            filedata |-> st2.filedata, base |-> st2.base,
                            out |-> st2.out, blob |-> 0, err |-> ""],
                           prefix, p, target)
        IN  IF j = 0 THEN [st1 EXCEPT !.err = "KeyError"]
            ELSE IF ~StartsWith(p, prefix) /\ p # path
                THEN NodeLoop(dump, st2, path, prefix)
            ELSE IF rec.action \notin {"add", "change"}
                THEN [st2 EXCEPT !.err = "KeyError"]
            ELSE IF el.action # (IF rec.action = "add" THEN "A" ELSE "M")
                THEN [st2 EXCEPT !.err = "AssertionError"]
            ELSE IF el.cfpath # NoPath \/ el.cfrev # 0
                THEN [st2 EXCEPT !.err = "AssertionError"]
            ELSE IF rec.kind = "dir"
                THEN IF el.action # "A"
                     THEN [st2 EXCEPT !.err = "AssertionError"]
                     ELSE NodeLoop(dump, st2, path, prefix)
            ELSE IF rec.kind # "file"
                THEN [st2 EXCEPT !.err = "AssertionError"]
            ELSE NodeFile(dump, st2, sk, rel, path, prefix)

\* Line 359: a revision that collected no edit is not committed.
SkipCommit(edits) == edits = << >>

\* Lines 396-400: the identity of the committer line,
\* "{name} <{email}>"; the lookup of line 400 raises KeyError for an author
\* that is not in the map.
AuthorKnown(author) == author_map.k = None.k \/ author \in DOMAIN author_map.n

\* The identity with the author map ignored.
IdentityUnmapped(author) == [name |-> author, email |-> <<author, uuid>>]

Identity(author) ==
    IF author_map.k = None.k
    THEN [name |-> author, email |-> <<author, uuid>>]
    ELSE author_map.n[author]

\* The commit message without lines 404-406.
MessagePlain(log, path, rev) == [log |-> log, trailer |-> << >>]

\* Lines 404-407: the commit message.
Message(log, path, rev) ==
    [log |-> log,
     trailer |-> IF git_svn THEN <<RStripSlash(path), rev>> ELSE << >>]

\* Line 412: whether the commit record gets a "from" line.
WritesFrom(init_export, merges, gitrev) ==
    (init_export \/ merges # << >>) /\ gitrev # None

\* Lines 388-421: the commit record, with its new mark.
CommitLines(git_ref, mark, author, msg, init_export, merges, gitrev, edits) ==
    <<LCommit(git_ref), LMark(mark), LCommitter(Identity(author), 0),
      LData(Len(msg.log) + Len(msg.trailer)), LMessage(msg), LBlank>>
    \o (IF WritesFrom(init_export, merges, gitrev) THEN <<LFrom(gitrev)>>
        ELSE << >>)
    \o [i \in 1..Len(merges) |-> LMerge(merges[i])]
    \o edits
    \o <<LBlank>>

\* Lines 364-421 after the node loop left st2: the commit record with its
\* new mark, unless the revision is skipped or an exception is raised.
CommitNodes(st2, log, git_ref, rev, author, init_export, gitrev, path) ==
    IF st2.err # "" THEN st2
    ELSE IF SkipCommit(st2.edits) THEN st2
    ELSE IF st2.paths # << >> THEN [st2 EXCEPT !.err = "AssertionError"]
    ELSE IF ~AuthorKnown(author)
    THEN [st2 EXCEPT
            !.nextmark = NewMarkNext(@),
            !.out = @ \o <<LCommit(git_ref), LMark(NewMarkValue(st2.nextmark))>>,
            !.err = "KeyError"]
    ELSE [st2 EXCEPT
            !.nextmark = NewMarkNext(@),
            !.mark = NewMarkValue(st2.nextmark),
            \* mergeinfo is the empty dict of line 233 when line 365 tests
            \* it: merges is empty
            !.out = @ \o CommitLines(git_ref, NewMarkValue(st2.nextmark),
                             author, Message(log, path, rev), init_export,
                             << >>, gitrev, st2.edits)]

\* Lines 264-421 after the revision record was found (st1).
CommitRevision(dump, st1, git_ref, rev, author, init_export, gitrev, path, prefix) ==
    IF st1.err # "" THEN st1
    ELSE IF ignore # << >> THEN [st1 EXCEPT !.err = "NameError"]
    ELSE CommitNodes(NodeLoop(dump, st1, path, prefix), st1.content.log,
                     git_ref, rev, author, init_export, gitrev, path)

\* Exporter.commit(rev, ...) from the working state st0 = [pos, header,
\* content, paths, nextmark, files, filedata, base, out, edits, err, mark]
\* (out holds what it wrote, after the base cells of the file): the state it
\* leaves, with err set when it raises and mark = 0 when it returns None.
Commit(dump, st0, git_ref, rev, author, init_export, gitrev, path, prefix) ==
    IF DeleteReached(st0.paths, prefix)
    THEN [st0 EXCEPT !.err = "AttributeError"]
    ELSE CommitRevision(dump, FindRevision(dump, st0, rev), git_ref, rev,
                        author, init_export, gitrev, path, prefix)

(***************************************************************************)
(* Exporter.export                                                         *)
(***************************************************************************)

\* The decision of lines 185-197 without the copyfrom test of line 195: a
\* revision that changes the branch path itself is never committed for it.
CommittableAbsentOnly(copies, paths, path, prefix) ==
    \/ copies
    \/ \E j \in 1..Len(paths) :
           StartsWith(paths[j].text, prefix) /\ StrGreater(paths[j].text, prefix)
    \/ PathIndex(paths, path) = 0

\* Lines 185-197: whether the revision is committed.
Committable(copies, paths, path, prefix) ==
    \/ copies
    \/ \E j \in 1..Len(paths) :
           StartsWith(paths[j].text, prefix) /\ StrGreater(paths[j].text, prefix)
    \/ LET j == PathIndex(paths, path)
       IN  IF j = 0 THEN TRUE ELSE paths[j].cfpath = NoPath

\* Line 207 without its guard: gitrev is assigned whatever commit returned.
GitrevAfterNew(new, gitrev) == new

\* Lines 206-208: the Git revision and init_export after commit returned
\* new (None when the commit was skipped).
GitrevAfter(new, gitrev) == IF new # None THEN new ELSE gitrev
InitAfter(new, init_export) == IF new # None THEN FALSE ELSE init_export

\* Lines 211-212: the output for a revision that is not committed.
ResetLines(git_ref, gitrev) == <<LReset(git_ref), LFrom(gitrev)>>

\* An export that does not remember what it visited.
RememberNothing(known, base_path, base_rev, gitrev) == known

\* Lines 218-225: remember the Git revision of (base_path, base_rev).
Remember(known, base_path, base_rev, gitrev) ==
    LET svnstarts == known[base_path].starts
        gitruns == known[base_path].runs
        i == bisect_left(svnstarts, base_rev)
    IN  IF i > 0 /\ svnstarts[i] + Len(gitruns[i]) = base_rev
        THEN [known EXCEPT ![base_path].runs[i] = Append(@, gitrev)]
        ELSE [known EXCEPT
                ![base_path].starts = InsertAt(@, i, base_rev),
                ![base_path].runs = InsertAt(@, i, <<gitrev>>)]

\* The revisions the two nested loops of export visit, in order: the
\* segments of the plan reversed (PendingSegments.__iter__), each with the
\* revisions ExportRevs yields for it.
RECURSIVE Visits(_, _)
Visits(log, segs) ==
    IF segs = << >> THEN << >>
    ELSE LET seg == Head(segs)
             path == <<"/">> \o seg.path
             prefix == RStripSlash(path) \o <<"/">>
             revs == ExportRevs(log, path, seg.base, seg.end)
         IN  [i \in 1..Len(revs) |->
                 [svnrev |-> revs[i].svnrev, author |-> revs[i].author,
                  paths |-> revs[i].paths, path |-> path, prefix |-> prefix]]
             \o Visits(log, Tail(segs))

VARIABLES
    svnlog,         \* Exporter._svnlog: the <logentry> elements
    dump,           \* the records of the dump file
    export_copies,  \* Exporter.export_copies
    known,          \* Exporter.known_branches
    dumppos,        \* position of the dump file (next record to read)
    header,         \* Exporter._header (with its _content)
    stream,         \* the lines written to the sink's file
    nextmark,       \* FastExport.nextmark
    files,          \* FastExport.files
    filedata,       \* FastExportFile.filedata: where each mark's bytes are
    filepos,        \* position of the sink's file (cells before it)
    blobread,       \* what iterating the last cat_blob result yielded
    branches,       \* RevisionSet.branches of the set under test
    pc,             \* "idle", "iter" (inside export's loops) or "failed"
    git_ref,        \* Exporter.git_ref
    queue,          \* the revisions export has still to visit
    gitrev,         \* export's local gitrev
    init_export,    \* export's local init_export
    base_rev,       \* export's local base_rev
    base_path,      \* export's local base_path
    calls,          \* number of export calls made
    result,         \* value returned by the last export call
    err,            \* the exception that ended the session, or ""
    located,        \* the segments iter_location_segments yielded last
    pending,        \* the PendingSegments object built last
    hist,           \* what each call did, for stating the properties
    node,           \* the file node whose text block is a delta
    target,         \* commit's local target after the Text-delta branch
    proc,           \* FastExportPipe.proc: the importer child and its pipes
    value           \* the error in flight when the sink's scope is left

config == <<ignore, git_svn, author_map>>

\* The variables of the text-delta applier and of the pipe sink.
units == <<node, target, proc, value>>

\* No delta is being applied and no importer was started.
UnitsIdle ==
    /\ node = None
    /\ target = None
    /\ proc = None
    /\ value = None

vars == <<config, branches, svnlog, dump, export_copies, known, dumppos, header, stream,
          nextmark, files, filedata, filepos, blobread, pc, git_ref, queue, gitrev, init_export, base_rev,
          base_path, calls, result, err, located, pending, hist, units>>

\* The revisions of a history that change /t or a path below it: the ones
\* an earlier export of "t" can have written to a revision map.
TouchedRevs(h) ==
    {r \in 1..MaxRev : TouchesPath(PathsOf(h[r]), parse_path(PT))}

\* The revisions of a history that create /tx.
CreatedX(h) == {r \in 1..MaxRev : h[r] \in {"addX", "copyX"}}

\* Revision maps of the sessions for a history: none, or one key for the
\* branch, spelt "t" or "/t", with any set of its revisions, or the key
\* "tx" with the revision that created /tx.
RevMaps(h) ==
    {<< >>}
    \cup {<<[branch |-> key, revs |-> S]>> :
             key \in {<<"t">>, <<"/", "t">>},
             S \in SUBSET TouchedRevs(h) \ {{}}}
    \cup {<<[branch |-> <<"t", "x">>, revs |-> {r}]>> : r \in CreatedX(h)}

GitRefNames == {"refs/ref"}

\* The author map of test_authors.
TestAuthors ==
    [k |-> "map", n |-> [user |-> [name |-> "user", email |-> <<"user">>]]]

\* The keyword arguments of Exporter in the sessions: the defaults of lines
\* 120-125, and each of the options alone.
DefaultConfig ==
    [ignore |-> << >>, git_svn |-> FALSE, author_map |-> None,
     export_copies |-> FALSE]

Configs ==
    {DefaultConfig,
     [DefaultConfig EXCEPT !.export_copies = TRUE],
     [DefaultConfig EXCEPT !.git_svn = TRUE],
     [DefaultConfig EXCEPT !.author_map = TestAuthors],
     [DefaultConfig EXCEPT !.ignore = <<<<"g">>>>]}

\* An entry of hist.
Event(ev, call, rev, path, decided, outcome, at, g, init, new, anchored) ==
    [ev |-> ev, call |-> call, rev |-> rev, path |-> path,
     decided |-> decided, outcome |-> outcome, at |-> at, gitrev |-> g,
     init |-> init, new |-> new, anchored |-> anchored]

Init ==
    /\ \E h \in Histories :
           /\ svnlog = LogOf(h)
           /\ dump = DumpOf(h)
           /\ \E m \in RevMaps(h) : known = InitKnown(EmptyKnown, m)
    /\ \E c \in Configs :
           /\ ignore = c.ignore
           /\ git_svn = c.git_svn
           /\ author_map = c.author_map
           /\ export_copies = c.export_copies
    /\ dumppos = 1
    /\ header = NoHeader
    /\ stream = << >>
    /\ nextmark = 1
    /\ files = << >>
    /\ filedata = << >>
    /\ filepos = 0
    /\ blobread = LBlank
    /\ branches = << >>
    /\ pc = "idle"
    /\ git_ref = ""
    /\ queue = << >>
    /\ gitrev = None
    /\ init_export = TRUE
    /\ base_rev = 0
    /\ base_path = << >>
    /\ calls = 0
    /\ result = None
    /\ err = ""
    /\ located = << >>
    /\ pending = PendingSegments(known, << >>)
    /\ hist = << >>
    /\ UnitsIdle

\* init_export cleared at the start of a call that has a resume anchor.
InitExportUnanchored(plan) == ~plan.anchored

\* Line 179: init_export at the start of the loops, whatever the plan is.
InitExport(plan) == TRUE

\* export(ref, branch, rev) up to its loops: lines 170-179.
ExportCall(ref, branch, rev) ==
    /\ pc = "idle"
    /\ calls < MaxCalls
    /\ calls' = calls + 1
    /\ git_ref' = ref
    /\ LET loc == iter_location_segments(svnlog, branch, rev)
           plan == PendingSegments(known, loc.segs)
           g == IF plan.base_rev # 0 THEN plan.git_base ELSE None
       IN  IF loc.err # ""
           THEN /\ pc' = "failed"
                /\ err' = loc.err
                /\ hist' = Append(hist, Event("call", calls + 1, rev, branch,
                               FALSE, "raise", Len(stream), None, TRUE, None,
                               FALSE))
                /\ UNCHANGED <<queue, gitrev, init_export, base_rev, base_path,
                               located, pending>>
           ELSE /\ pc' = "iter"
                /\ err' = ""
                /\ queue' = Visits(svnlog, Reverse(plan.segments))
                /\ gitrev' = g
                /\ init_export' = InitExport(plan)
                /\ base_rev' = plan.base_rev
                /\ base_path' = plan.base_path
                /\ located' = loc.segs
                /\ pending' = plan
                /\ hist' = Append(hist, Event("call", calls + 1, rev, branch,
                               FALSE, "plan", Len(stream), g,
                               InitExport(plan), plan.git_base,
                               plan.anchored))
    /\ UNCHANGED <<config, units, branches, svnlog, dump, export_copies, known, dumppos, header,
                   stream, nextmark, files, filedata, filepos, blobread,
                   result>>

\* One pass of the inner loop for a revision that is committed: lines
\* 184-208 and 214-225, with the call of commit.
IterCommit ==
    /\ pc = "iter"
    /\ queue # << >>
    /\ LET v == Head(queue)
           st0 == [pos |-> dumppos, header |-> header, content |-> header,
                   paths |-> v.paths, nextmark |-> nextmark, files |-> files,
                   filedata |-> filedata, base |-> Len(stream),
                   out |-> << >>, edits |-> << >>, err |-> "", mark |-> 0]
           st == Commit(dump, st0, git_ref, v.svnrev, v.author, init_export,
                        gitrev, v.path, v.prefix)
           new == IF st.mark = 0 THEN None ELSE MarkRef(st.mark)
           g == GitrevAfter(new, gitrev)
       IN  /\ Committable(export_copies, v.paths, v.path, v.prefix) = TRUE
           /\ dumppos' = st.pos
           /\ header' = st.header
           /\ stream' = WriteAt(stream, filepos, st.out)
           /\ filepos' = filepos + Len(st.out)
           /\ nextmark' = st.nextmark
           /\ files' = st.files
           /\ filedata' = st.filedata
           /\ IF st.err # ""
              THEN /\ pc' = "failed"
                   /\ err' = st.err
                   /\ hist' = Append(hist, Event("rev", calls, v.svnrev,
                                  Tail(v.path), TRUE, "raise", Len(stream),
                                  gitrev, init_export, None, FALSE))
                   /\ UNCHANGED <<queue, gitrev, init_export, base_rev,
                                  base_path, known>>
              ELSE /\ pc' = "iter"
                   /\ err' = ""
                   /\ queue' = Tail(queue)
                   /\ gitrev' = g
                   /\ init_export' = InitAfter(new, init_export)
                   /\ base_rev' = v.svnrev
                   /\ base_path' = Tail(v.path)
                   /\ known' = Remember(known, Tail(v.path), v.svnrev, g)
                   /\ hist' = Append(hist, Event("rev", calls, v.svnrev,
                                  Tail(v.path), TRUE,
                                  IF new = None THEN "skip" ELSE "commit",
                                  Len(stream), gitrev, init_export, new, FALSE))
    /\ UNCHANGED <<config, units, branches, svnlog, dump, export_copies, git_ref, calls, result,
                   located, pending, blobread>>

\* One pass of the inner loop for a revision that is not committed: lines
\* 184-197 and 209-225.
IterReset ==
    /\ pc = "iter"
    /\ queue # << >>
    /\ LET v == Head(queue)
       IN  /\ Committable(export_copies, v.paths, v.path, v.prefix) = FALSE
           /\ stream' = WriteAt(stream, filepos, ResetLines(git_ref, gitrev))
           /\ filepos' = filepos + 2
           /\ queue' = Tail(queue)
           /\ base_rev' = v.svnrev
           /\ base_path' = Tail(v.path)
           /\ known' = Remember(known, Tail(v.path), v.svnrev, gitrev)
           /\ hist' = Append(hist, Event("rev", calls, v.svnrev, Tail(v.path),
                          FALSE, "reset", Len(stream), gitrev, init_export,
                          None, FALSE))
    /\ UNCHANGED <<config, units, branches, svnlog, dump, export_copies, dumppos, header, nextmark,
                   files, filedata, blobread, pc, git_ref, gitrev,
                   init_export, calls, result, err, located, pending>>

\* The loops are over: line 227.
ExportReturn ==
    /\ pc = "iter"
    /\ queue = << >>
    /\ pc' = "idle"
    /\ result' = gitrev
    /\ hist' = Append(hist, Event("return", calls, 0, << >>, FALSE, "return",
                   Len(stream), gitrev, init_export, gitrev, FALSE))
    /\ UNCHANGED <<config, units, branches, svnlog, dump, export_copies, known, dumppos, header,
                   stream, nextmark, files, filedata, filepos, blobread,
                   git_ref, queue, gitrev, init_export, base_rev, base_path,
                   calls, err, located, pending>>

\* The peg revisions of the calls; NoRev is the youngest revision.
PegRevs == {NoRev} \cup 1..(MaxRev - 1)

Next ==
    \/ \E ref \in GitRefNames, rev \in PegRevs : ExportCall(ref, <<"t">>, rev)
    \/ \E ref \in GitRefNames : ExportCall(ref, << >>, NoRev)
    \/ IterCommit
    \/ IterReset
    \/ ExportReturn

Spec == Init /\ [][Next]_vars

\* export runs to its end once it is called: the passes of its loops and its
\* return are steps of one call of a sequential program, and nothing else is
\* scheduled between them.  The calls themselves are up to the caller.
\* A step of the running call is enabled exactly when pc = "iter" (the
\* queue is empty, or its head is committed or reset), so weak fairness
\* of those steps together is the formula LoopFair.
Loop == IterCommit \/ IterReset \/ ExportReturn

LoopFair == []<>(pc # "iter") \/ []<><<Loop>>_vars

SpecFair == Spec /\ WF_vars(IterReset) /\ WF_vars(ExportReturn) /\ LoopFair

(***************************************************************************)
(* The planner on lists of location segments                               *)
(***************************************************************************)

\* Revisions 1..MaxPlanRev and at most MaxSegs segments in a list.
MaxPlanRev == 4
MaxSegs == 2

PlanRevs == 1..MaxPlanRev

\* The (start, end, path) tuples the loop of PendingSegments.__init__ can
\* be handed.
Segments ==
    {seg \in [start : PlanRevs, end : PlanRevs, path : Branches] :
        seg.start <= seg.end}

\* Lists of segments, youngest first: each one ends before the one listed
\* before it starts.
SegmentLists ==
    UNION {{q \in [1..n -> Segments] :
               \A k \in 1..(n - 1) : q[k + 1].end < q[k].start} :
           n \in 1..MaxSegs}

\* The indexes Exporter.__init__ builds from a revision map with one key
\* for each branch.
PlanIndexes ==
    {InitKnown(EmptyKnown, <<[branch |-> <<"t">>, revs |-> A],
                             [branch |-> << >>, revs |-> B]>>) :
        A \in SUBSET PlanRevs, B \in SUBSET PlanRevs}

PlanInit ==
    /\ known \in PlanIndexes
    /\ svnlog = << >>
    /\ dump = << >>
    /\ ignore = DefaultConfig.ignore
    /\ git_svn = DefaultConfig.git_svn
    /\ author_map = DefaultConfig.author_map
    /\ export_copies = DefaultConfig.export_copies
    /\ dumppos = 1
    /\ header = NoHeader
    /\ stream = << >>
    /\ nextmark = 1
    /\ files = << >>
    /\ filedata = << >>
    /\ filepos = 0
    /\ blobread = LBlank
    /\ branches = << >>
    /\ pc = "idle"
    /\ git_ref = ""
    /\ queue = << >>
    /\ gitrev = None
    /\ init_export = TRUE
    /\ base_rev = 0
    /\ base_path = << >>
    /\ calls = 0
    /\ result = None
    /\ err = ""
    /\ located = << >>
    /\ pending = PendingSegments(known, << >>)
    /\ hist = << >>
    /\ UnitsIdle

\* PendingSegments(exporter, branch, rev) for the segments segs, once for
\* an index.
Plan(segs) ==
    /\ pc = "idle"
    /\ located = << >>
    /\ located' = segs
    /\ pending' = PendingSegments(known, segs)
    /\ UNCHANGED <<config, units, branches, svnlog, dump, export_copies, known, dumppos, header,
                   stream, nextmark, files, filedata, filepos, blobread, pc,
                   git_ref, queue, gitrev, init_export, base_rev, base_path,
                   calls, result, err, hist>>

PlanNext == \E segs \in SegmentLists : Plan(segs)

SpecPlan == PlanInit /\ [][PlanNext]_vars

(***************************************************************************)
(* The file sink on its own                                                *)
(***************************************************************************)

\* Number of operations made on one FastExportFile.
MaxSinkOps == 5

PTXF == <<"/", "t", "x", "/", "f">>     \* a file of the branch /tx

\* The file nodes handed to the sink, each with the prefix of the branch
\* that is exported (line 313 cuts the prefix off).
SinkFiles ==
    {[prefix |-> PT \o <<"/">>, p |-> PTF],
     [prefix |-> PT \o <<"/">>, p |-> PTG],
     [prefix |-> PTX \o <<"/">>, p |-> PTXF]}

\* An entry of hist for an operation on the sink.
SinkEvent(ev, prefix, path, mark, buf) ==
    [ev |-> ev, prefix |-> prefix, path |-> path, mark |-> mark, buf |-> buf]

\* The sink as commit finds it.
SinkOf ==
    [nextmark |-> nextmark, files |-> files, filedata |-> filedata,
     base |-> 0, out |-> stream, blob |-> 0, err |-> ""]

\* The bytes of the next blob: one byte that tells the blobs apart.
NextBuf == <<Len(hist) + 1>>

SinkInit ==
    /\ ignore = DefaultConfig.ignore
    /\ git_svn = DefaultConfig.git_svn
    /\ author_map = DefaultConfig.author_map
    /\ export_copies = DefaultConfig.export_copies
    /\ known = EmptyKnown
    /\ svnlog = << >>
    /\ dump = << >>
    /\ dumppos = 1
    /\ header = NoHeader
    /\ stream = << >>
    /\ nextmark = 1
    /\ files = << >>
    /\ filedata = << >>
    /\ filepos = 0
    /\ blobread = LBlank
    /\ branches = << >>
    /\ pc = "sink"
    /\ git_ref = "refs/ref"
    /\ queue = << >>
    /\ gitrev = None
    /\ init_export = TRUE
    /\ base_rev = 0
    /\ base_path = << >>
    /\ calls = 0
    /\ result = None
    /\ err = ""
    /\ located = << >>
    /\ pending = << >>
    /\ hist = << >>
    /\ UnitsIdle

\* What an operation of the sink leaves alone.
SinkFrame ==
    UNCHANGED <<config, units, branches, svnlog, dump, export_copies, known, dumppos, header,
                git_ref, queue, gitrev, init_export, base_rev, base_path,
                calls, result, located, pending>>

\* The sink after blob or the file-node step left it in sk.
SinkAfter(sk, ev, prefix, path, buf) ==
    /\ nextmark' = sk.nextmark
    /\ files' = sk.files
    /\ filedata' = sk.filedata
    /\ stream' = sk.out
    /\ filepos' = Len(sk.out)
    /\ err' = sk.err
    /\ pc' = IF sk.err # "" THEN "failed" ELSE pc
    /\ hist' = Append(hist, SinkEvent(IF sk.err # "" THEN "raise" ELSE ev,
                                      prefix, path, sk.blob, buf))
    /\ UNCHANGED blobread

\* output.blob(path, buf) alone (lines 655-662).
Blob(path) ==
    /\ pc = "sink"
    /\ Len(hist) < MaxSinkOps
    /\ SinkAfter(SinkBlob(SinkOf, path, NextBuf), "blob", << >>, path, NextBuf)
    /\ SinkFrame

\* The file-node step of commit (lines 313, 355-356) for a file of the
\* branch that is exported.
BlobOfNode(f) ==
    /\ pc = "sink"
    /\ Len(hist) < MaxSinkOps
    /\ SinkAfter(FileNode(SinkOf, f.prefix, f.p, NextBuf), "blob", f.prefix,
                 SubSeq(f.p, Len(f.prefix) + 1, Len(f.p)), NextBuf)
    /\ SinkFrame

\* The file-node steps of hist.
NodeEvents ==
    {i \in 1..Len(hist) : hist[i].ev = "blob" /\ hist[i].prefix # << >>}

\* The commit record of lines 388-419 with the M edit of the blob written
\* last: printf writes each line where the file is positioned.
CommitRecord ==
    /\ pc = "sink"
    /\ Len(hist) < MaxSinkOps
    /\ NodeEvents # {}
    /\ LET last == hist[CHOOSE i \in NodeEvents :
                            \A j \in NodeEvents : j <= i]
           mark == NewMarkValue(nextmark)
           lines == CommitLines(git_ref, mark, "user",
                        Message(<<"log">>, PT, 1), init_export, << >>, gitrev,
                        <<LModify(files[last.path].mode, last.mark,
                                  last.path)>>)
       IN  /\ nextmark' = NewMarkNext(nextmark)
           /\ stream' = WriteAt(stream, filepos, lines)
           /\ filepos' = filepos + Len(lines)
           /\ hist' = Append(hist, SinkEvent("commit", << >>, << >>, mark,
                                             << >>))
    /\ UNCHANGED <<files, filedata, blobread, err, pc>>
    /\ SinkFrame

\* bytes(output.cat_blob(blob)) for a mark the sink has written.
ReadBlob(blob) ==
    /\ pc = "sink"
    /\ Len(hist) < MaxSinkOps
    /\ blob \in DOMAIN filedata
    /\ blobread' = CatBlob(stream, filedata, blob).cell
    /\ filepos' = CatBlob(stream, filedata, blob).pos
    /\ hist' = Append(hist, SinkEvent("read", << >>, << >>, blob, << >>))
    /\ UNCHANGED <<stream, nextmark, files, filedata, err, pc>>
    /\ SinkFrame

SinkNext ==
    \/ \E path \in {<<"f">>, <<"g">>} : Blob(path)
    \/ \E f \in SinkFiles : BlobOfNode(f)
    \/ CommitRecord
    \/ \E blob \in 1..MaxSinkOps : ReadBlob(blob)

SpecSink == SinkInit /\ [][SinkNext]_vars

(***************************************************************************)
(* Properties of export, stated over the stream and the history            *)
(***************************************************************************)

\* The entries of hist for the revisions export visited, and those of them
\* whose commit was emitted.
RevEvents == {i \in 1..Len(hist) : hist[i].ev = "rev"}
CommitEvents == {i \in RevEvents : hist[i].outcome = "commit"}

\* The last line written for entry i of hist, and the call entry of call c.
EventEnd(i) == IF i = Len(hist) THEN Len(stream) ELSE hist[i + 1].at
CallEvent(c) ==
    hist[CHOOSE i \in 1..Len(hist) : hist[i].ev = "call" /\ hist[i].call = c]

\* The changed paths the log gives for revision r.
LogPaths(r) ==
    svnlog[CHOOSE k \in 1..Len(svnlog) : svnlog[k].revision = r].paths

\* The lines of a kind written for entry i of hist.
LinesOf(i, op) == {j \in (hist[i].at + 1)..EventEnd(i) : stream[j].op = op}

\* Entry i is the first commit its call emitted.
FirstCommit(i) ==
    \A j \in CommitEvents : hist[j].call = hist[i].call => j >= i

\* C1's condition for committing a revision of a branch, in its words: the
\* option is set, or a changed path starts with the branch prefix and is
\* longer, or the branch path is absent or has no copyfrom path.
ClaimCommittable(copies, paths, branch) ==
    LET path == <<"/">> \o branch
        prefix == IF branch = << >> THEN path ELSE path \o <<"/">>
        els == {paths[j] : j \in 1..Len(paths)}
    IN  \/ copies
        \/ \E el \in els : /\ Len(el.text) > Len(prefix)
                          /\ Take(el.text, Len(prefix)) = prefix
        \/ \A el \in els : el.text = path => el.cfpath = NoPath

\* C1: the revision export visited last was committed (commit was called)
\* exactly when export_copies is set, or a changed path lies strictly below
\* the branch prefix, or the branch path is not among the changed paths or
\* has no copyfrom path; and if it was not committed, the two lines
\* "reset <git_ref>" and "from <gitrev>" are all that was written for it
\* and gitrev is what it was before.
C1_CommitDecision ==
    (hist # << >> /\ hist[Len(hist)].ev = "rev") =>
        LET e == hist[Len(hist)]
        IN  /\ e.decided = ClaimCommittable(export_copies, LogPaths(e.rev),
                                            e.path)
            /\ (e.outcome = "reset") = ~e.decided
            /\ ~e.decided =>
                   /\ stream = Take(stream, e.at)
                                   \o <<LReset(git_ref), LFrom(e.gitrev)>>
                   /\ gitrev = e.gitrev

\* A bare branch copy was visited and the reset written for it.
C1_Witness ==
    /\ hist # << >>
    /\ hist[Len(hist)].ev = "rev"
    /\ hist[Len(hist)].outcome = "reset"
    /\ ~ClaimCommittable(export_copies, LogPaths(hist[Len(hist)].rev),
                         hist[Len(hist)].path)
    /\ Len(stream) >= 2
    /\ stream[Len(stream) - 1].op = "reset"

\* C2: every revision export decided to commit, and whose commit call
\* returned, has a commit record (commit, mark, committer and data lines)
\* among the lines written for it.
C2_CommittableEmitsCommit ==
    \A i \in RevEvents :
        (hist[i].decided /\ hist[i].outcome # "raise") =>
            \E j \in LinesOf(i, "commit") :
                /\ j + 3 <= EventEnd(i)
                /\ stream[j + 1].op = "mark"
                /\ stream[j + 2].op = "committer"
                /\ stream[j + 3].op = "data"

\* C3: a commit record has a from line only if it is the first commit of
\* its call or has a merge line; the first commit of a call that resumed
\* from a known base has the line "from <git_base>"; a later commit of the
\* call without merge lines has no from line.
C3_FromLine ==
    \A i \in CommitEvents :
        LET c == CallEvent(hist[i].call)
        IN  /\ LinesOf(i, "from") # {} =>
                   (FirstCommit(i) \/ LinesOf(i, "merge") # {})
            /\ (FirstCommit(i) /\ c.anchored) =>
                   \E j \in LinesOf(i, "from") : stream[j].ref = c.new
            /\ (~FirstCommit(i) /\ LinesOf(i, "merge") = {}) =>
                   LinesOf(i, "from") = {}

\* C4: the token of every from and merge line of the stream is a GitRef of
\* the revision map or a mark that an earlier mark line of the stream
\* defines.
C4_RefsDefined ==
    \A j \in 1..Len(stream) :
        stream[j].op \in {"from", "merge"} =>
            \/ stream[j].ref.k = "ref"
            \/ /\ stream[j].ref.k = "mark"
               /\ \E i \in 1..(j - 1) :
                      stream[i].op = "mark" /\ stream[i].mark = stream[j].ref.n

\* C5: the revisions one export call visits, and so the revisions of the
\* commits it emits, have strictly increasing SVN revision numbers.
C5_AscendingRevs ==
    \A i \in RevEvents, j \in RevEvents :
        (i < j /\ hist[i].call = hist[j].call) => hist[i].rev < hist[j].rev

\* One call emitted two commits.
C5_Witness ==
    \E i \in CommitEvents, j \in CommitEvents :
        i < j /\ hist[i].call = hist[j].call /\ hist[i].rev < hist[j].rev

\* C6: for every branch, each run of the index ends before the revision
\* before the next run's start: starts[i] + len(runs[i]) < starts[i+1].
C6_RunsApart ==
    \A b \in Branches :
        \A i \in 1..(Len(known[b].starts) - 1) :
            known[b].starts[i] + Len(known[b].runs[i]) < known[b].starts[i + 1]

\* C7: no Git revision stored in the index is None; a stored mark is the
\* mark of the commit emitted for that revision of that branch; and a
\* revision that was reset, or whose commit was not emitted, has no entry.
C7_IndexHoldsCommits ==
    \A b \in Branches :
        \A i \in 1..Len(known[b].runs) :
            \A k \in 1..Len(known[b].runs[i]) :
                LET g == known[b].runs[i][k]
                    r == known[b].starts[i] + k - 1
                IN  /\ g # None
                    /\ g.k = "mark" =>
                           \E e \in CommitEvents :
                               /\ hist[e].path = b
                               /\ hist[e].rev = r
                               /\ hist[e].new = g
                    /\ \A e \in RevEvents :
                           (hist[e].path = b /\ hist[e].rev = r) =>
                               hist[e].outcome = "commit"

\* The value C9 gives for the call that returned at entry i of hist: the
\* mark of its last commit, else git_base if the plan has a base, else None.
ClaimResult(i) ==
    LET c == CallEvent(hist[i].call)
        mine == {j \in CommitEvents : hist[j].call = hist[i].call}
    IN  IF mine # {}
        THEN hist[CHOOSE j \in mine : \A q \in mine : q <= j].new
        ELSE IF c.anchored THEN c.new ELSE None

\* C9: an export call that has just returned returned the mark of the last
\* commit it emitted, or, if it emitted none, the plan's git_base when the
\* plan has a base revision and None otherwise.
C9_ReturnValue ==
    (hist # << >> /\ hist[Len(hist)].ev = "return") =>
        result = ClaimResult(Len(hist))

\* A call returned after a commit and a later revision without one.
C9_Witness ==
    /\ hist # << >>
    /\ hist[Len(hist)].ev = "return"
    /\ \E i \in CommitEvents, j \in RevEvents :
           /\ i < j
           /\ hist[i].call = hist[Len(hist)].call
           /\ hist[j].call = hist[Len(hist)].call
           /\ hist[j].outcome = "skip"
    /\ result.k = "mark"

\* The mark lines of the stream, and those of them that belong to a commit
\* record (the line after a commit line).
MarkLines == {j \in 1..Len(stream) : stream[j].op = "mark"}
CommitMarkLines == {j \in MarkLines : j > 1 /\ stream[j - 1].op = "commit"}

\* C10: marks are numbered from 1 and every mark of the stream was issued
\* before the next one newmark will return; the mark of a commit record is
\* greater than every mark written before it, so it differs from every
\* blob mark and every other commit mark of the stream.
C10_FreshMarks ==
    /\ nextmark >= 1
    /\ \A j \in MarkLines : 1 <= stream[j].mark /\ stream[j].mark < nextmark
    /\ \A j \in CommitMarkLines :
           /\ \A i \in MarkLines : i < j => stream[i].mark < stream[j].mark
           /\ \A i \in MarkLines : i # j => stream[i].mark # stream[j].mark

\* The stream holds two commit records and a blob.
C10_Witness ==
    /\ Cardinality(CommitMarkLines) >= 2
    /\ MarkLines # CommitMarkLines
    /\ nextmark >= 4

(***************************************************************************)
(* Properties of the planner                                               *)
(***************************************************************************)

\* The last revision of run i of the index of a path.
LastRev(path, i) == known[path].starts[i] + Len(known[path].runs[i]) - 1

\* The runs of a path that start at or before end, and the latest of them.
RunsAtOrBefore(path, end) ==
    {i \in 1..Len(known[path].starts) : known[path].starts[i] <= end}
CandidateRun(path, end) ==
    CHOOSE i \in RunsAtOrBefore(path, end) :
        \A j \in RunsAtOrBefore(path, end) :
            known[path].starts[j] <= known[path].starts[i]

\* The case of a segment, with base the last revision of the latest run
\* that starts at or before the segment's end.
SegCase(seg) ==
    IF RunsAtOrBefore(seg.path, seg.end) = {} THEN "whole"
    ELSE LET base == LastRev(seg.path, CandidateRun(seg.path, seg.end))
         IN  IF seg.start <= base /\ base <= seg.end THEN "resume"
             ELSE IF base > seg.end THEN "known"
             ELSE "whole"

\* The case of a segment, with base the last revision of any run.
SegCaseAnyRun(seg) ==
    LET lasts == {LastRev(seg.path, i) : i \in 1..Len(known[seg.path].starts)}
    IN  IF \E b \in lasts : seg.start <= b /\ b <= seg.end THEN "resume"
        ELSE IF \E b \in lasts : b > seg.end THEN "known"
        ELSE "whole"

\* The plan entries (start - 1, end, path) of the first n segments scanned.
WholeSegments(n) ==
    [k \in 1..n |-> [base |-> located[k].start - 1, end |-> located[k].end,
                     path |-> located[k].path]]

\* What the plan must be when scanning stops at segment number stop (past
\* the last one if it never stops) in the case given, resuming from run i.
PlanIs(stop, case, i) ==
    IF stop > Len(located) THEN pending.segments = WholeSegments(Len(located))
    ELSE LET seg == located[stop]
             base == LastRev(seg.path, i)
         IN  IF case = "known"
             THEN pending.segments = WholeSegments(stop - 1)
             ELSE /\ pending.segments =
                        WholeSegments(stop - 1)
                        \o (IF base < seg.end
                            THEN <<[base |-> base, end |-> seg.end,
                                    path |-> seg.path]>>
                            ELSE << >>)
                  /\ pending.base_rev = base
                  /\ pending.base_path = seg.path
                  /\ pending.git_base =
                         known[seg.path].runs[i][Len(known[seg.path].runs[i])]

\* No plan entry comes from a segment older than number stop.
NothingOlder(stop) ==
    \A k \in (stop + 1)..Len(located) :
        \A x \in 1..Len(pending.segments) :
            pending.segments[x].end # located[k].end

MaxSetRev == 3
MaxAdds == 3

SetBranches == {PT, PTX}

\* bisect_left(ranges, (start, 0, True)) on a list of (start, end, True)
\* tuples, which compare element by element.
RangeBisectLeft(ranges, start) ==
    Cardinality({n \in 1..Len(ranges) :
                    \/ ranges[n].start < start
                    \/ ranges[n].start = start /\ ranges[n].end < 0})

\* add_segment without the merge into the neighbouring ranges.
AddSegmentInsert(ranges, start, end) ==
    LET i == RangeBisectLeft(ranges, start)
    IN  SubSeq(ranges, 1, i)
        \o <<[start |-> start, end |-> end, inheritable |-> TRUE]>>
        \o SubSeq(ranges, i + 1, Len(ranges))

\* RevisionSet.add_segment on the range list of the branch (lines 522-540).
AddSegment(ranges, start, end) ==
    LET i == RangeBisectLeft(ranges, start)
        left == i > 0 /\ ranges[i].end + 1 >= start
        start1 == IF left THEN ranges[i].start ELSE start
        end1 == IF left THEN Max(end, ranges[i].end) ELSE end
        starti == IF left THEN i - 1 ELSE i
        right == i < Len(ranges) /\ ranges[i + 1].start <= end1 + 1
        end2 == IF right THEN Max(end1, ranges[i + 1].end) ELSE end1
        stopi == IF right THEN i + 1 ELSE i
    IN  SubSeq(ranges, 1, starti)
        \o <<[start |-> start1, end |-> end2, inheritable |-> TRUE]>>
        \o SubSeq(ranges, stopi + 1, Len(ranges))

\* RevisionSet(): branches is a defaultdict(list).
RangesInitBranches == [b \in SetBranches |-> << >>]

RangesInit ==
    /\ branches = RangesInitBranches
    /\ ignore = DefaultConfig.ignore
    /\ git_svn = DefaultConfig.git_svn
    /\ author_map = DefaultConfig.author_map
    /\ export_copies = DefaultConfig.export_copies
    /\ known = EmptyKnown
    /\ svnlog = << >>
    /\ dump = << >>
    /\ dumppos = 1
    /\ header = NoHeader
    /\ stream = << >>
    /\ nextmark = 1
    /\ files = << >>
    /\ filedata = << >>
    /\ filepos = 0
    /\ blobread = LBlank
    /\ pc = "ranges"
    /\ git_ref = ""
    /\ queue = << >>
    /\ gitrev = None
    /\ init_export = TRUE
    /\ base_rev = 0
    /\ base_path = << >>
    /\ calls = 0
    /\ result = None
    /\ err = ""
    /\ located = << >>
    /\ pending = << >>
    /\ hist = << >>
    /\ UnitsIdle

\* One call of add_segment(branch, start, end).
add_segment(branch, start, end) ==
    /\ pc = "ranges"
    /\ calls < MaxAdds
    /\ start <= end
    /\ calls' = calls + 1
    /\ branches' = [branches EXCEPT
                        ![branch] = AddSegment(@, start, end)]
    /\ hist' = Append(hist, [branch |-> branch, start |-> start, end |-> end])
    /\ UNCHANGED <<config, units, svnlog, dump, export_copies, known, dumppos, header,
                   stream, nextmark, files, filedata, filepos, blobread, pc,
                   git_ref, queue, gitrev, init_export, base_rev, base_path,
                   result, err, located, pending>>

RangesNext ==
    \E branch \in SetBranches, start \in 1..MaxSetRev, end \in 1..MaxSetRev :
        add_segment(branch, start, end)

SpecRanges == RangesInit /\ [][RangesNext]_vars

(***************************************************************************)
(* The text delta of a file node (Exporter.commit, lines 316-354)          *)
(***************************************************************************)

\* Buffers of the model have up to MaxData bytes, each "a" or "b".
MaxData == 2

Data == UNION {[1..n -> {97, 98}] : n \in 0..MaxData}

\* md5(buf).hexdigest(): buffers of the model that differ have digests that
\* differ.
md5(buf) == [md5 |-> buf]

\* b"SVN\x00"
Magic == <<83, 86, 78, 0>>

\* stream.read(n) with the stream buf at position pos: up to n bytes,
\* fewer at the end.
Read(buf, pos, n) ==
    SubSeq(buf, pos, IF pos + n - 1 < Len(buf) THEN pos + n - 1
                        ELSE Len(buf))

\* read_int(stream) with the stream buf at position pos and i accumulated so
\* far; ok is FALSE when the stream ends, where [byte] = stream.read(1)
\* raises ValueError.
RECURSIVE read_int(_, _, _)
read_int(buf, pos, i) ==
    IF pos > Len(buf) THEN [ok |-> FALSE, i |-> 0, pos |-> pos]
    ELSE IF buf[pos] >= 128
        THEN read_int(buf, pos + 1, i * 128 + (buf[pos] % 128))
    ELSE [ok |-> TRUE, i |-> i * 128 + (buf[pos] % 128), pos |-> pos + 1]

\* n calls of read_int in a row: the values read and the position after.
RECURSIVE ReadInts(_, _, _, _)
ReadInts(buf, pos, n, vals) ==
    IF n = 0 THEN [ok |-> TRUE, vals |-> vals, pos |-> pos]
    ELSE IF ~read_int(buf, pos, 0).ok
        THEN [ok |-> FALSE, vals |-> vals, pos |-> pos]
    ELSE ReadInts(buf, read_int(buf, pos, 0).pos, n - 1,
                  Append(vals, read_int(buf, pos, 0).i))

\* An exception leaves the branch.
DeltaRaise(e) == [err |-> e, target |-> << >>]

\* commit's locals SOURCE and NEW.
COPY_FROM_SOURCE == 0
COPY_FROM_NEW == 2

\* Lines 351-354: nothing is left of the instructions nor of the window,
\* and the digest of the target is the one of Text-content-md5.
DeltaEnd(new_target, instr_data, ipos, delta, dpos, hash) ==
    IF ipos <= Len(instr_data) THEN DeltaRaise("AssertionError")
    ELSE IF dpos <= Len(delta) THEN DeltaRaise("AssertionError")
    ELSE IF md5(new_target) # hash THEN DeltaRaise("AssertionError")
    ELSE [err |-> "", target |-> new_target]

\* Lines 343-345: the offset of a copy from the source, and source[:copy].
\* The source of an added file is None, which has no slices.
DeltaFromSource(source, copy, offset, instr_data, delta, dpos, hash) ==
    IF ~offset.ok THEN DeltaRaise("ValueError")
    ELSE IF offset.i # 0 THEN DeltaRaise("AssertionError")
    ELSE IF source.k = None.k THEN DeltaRaise("TypeError")
    ELSE DeltaEnd(Take(source.n, copy), instr_data, offset.pos, delta, dpos,
                  hash)

\* Lines 338-350, with instr already shifted right by six bits and copy the
\* result of read_int(instr_data).
DeltaCopy(source, instr, copy, instr_data, delta, dpos, data, hash) ==
    IF ~copy.ok THEN DeltaRaise("ValueError")
    ELSE IF instr = COPY_FROM_SOURCE
        THEN DeltaFromSource(source, copy.i, read_int(instr_data, copy.pos, 0),
                             instr_data, delta, dpos, hash)
    ELSE IF instr # COPY_FROM_NEW THEN DeltaRaise("AssertionError")
    ELSE IF copy.i # data THEN DeltaRaise("AssertionError")
    ELSE IF Len(Read(delta, dpos, copy.i)) # copy.i
        THEN DeltaRaise("AssertionError")
    ELSE DeltaEnd(Read(delta, dpos, copy.i), instr_data, copy.pos, delta,
                  dpos + copy.i, hash)

\* Lines 335-337: the instruction byte; its low six bits must be clear.
DeltaOp(source, instr_data, delta, dpos, data, hash) ==
    IF instr_data = << >> THEN DeltaRaise("ValueError")
    ELSE IF instr_data[1] % 64 # 0 THEN DeltaRaise("AssertionError")
    ELSE DeltaCopy(source, instr_data[1] \div 64, read_int(instr_data, 2, 0),
                   instr_data, delta, dpos, data, hash)

\* Lines 329-334, h being source_length, target, instr_length and data as
\* read: the instructions are the next instr_length bytes.
DeltaInstr(source, delta, h, hash) ==
    IF ~h.ok THEN DeltaRaise("ValueError")
    ELSE IF Len(Read(delta, h.pos, h.vals[3])) # h.vals[3]
        THEN DeltaRaise("AssertionError")
    ELSE DeltaOp(source, Read(delta, h.pos, h.vals[3]), delta,
                 h.pos + h.vals[3], h.vals[4], hash)

\* Lines 324-328: the magic, and source_offset, which must be 0.
DeltaWindow(source, delta, source_offset, hash) ==
    IF Read(delta, 1, 4) # Magic THEN DeltaRaise("AssertionError")
    ELSE IF ~source_offset.ok THEN DeltaRaise("ValueError")
    ELSE IF source_offset.i # 0 THEN DeltaRaise("AssertionError")
    ELSE DeltaInstr(source, delta, ReadInts(delta, source_offset.pos, 4, << >>),
                    hash)

\* Lines 317-354 for a file node n with Text-delta: true.  The source of a
\* changed file is what cat_blob returns: bytes from the pipe sink, a
\* FileArray from the file sink, which md5 does not accept.
TextDelta(n) ==
    IF n.action = "M" /\ n.sink = "file" THEN DeltaRaise("TypeError")
    ELSE IF n.action = "M" /\ md5(n.source) # n.basehash
        THEN DeltaRaise("AssertionError")
    ELSE DeltaWindow(IF n.action = "M" THEN [k |-> "bytes", n |-> n.source]
                     ELSE None,
                     n.content, read_int(n.content, 5, 0), n.hash)

\* A window of svndiff0: source_offset 0, source_length, target_length, the
\* lengths of the instructions and of the new data, and the two.
Window(slen, tlen, instr, new) ==
    <<0, slen, tlen, Len(instr), Len(new)>> \o instr \o new

\* The instructions of the windows: a copy of n bytes of new data, its
\* length in the low six bits of the instruction byte, in the integer that
\* follows, or in a two-byte integer; a copy of n bytes from the source at
\* offset 0 in the same two forms; a copy from the target; and none.
Instrs ==
    {<< >>}
    \cup UNION {{<<128 + n>>, <<128, n>>, <<128, 128, n>>,
                 <<n, 0>>, <<0, n, 0>>, <<64, n, 0>>} : n \in 0..MaxData}

\* The text blocks: the magic alone, the magic of svndiff1, one window, and
\* two windows of new data.
Deltas ==
    {Magic, <<83, 86, 78, 1>>}
    \cup {Magic \o Window(0, Len(new), instr, new) :
             instr \in Instrs, new \in Data}
    \cup {Magic \o Window(0, Len(new), <<128, Len(new)>>, new)
                \o Window(0, Len(new), <<128, Len(new)>>, new) : new \in Data}

\* A file node with Text-delta: true.  An added file has no source; a
\* changed file has the bytes s of its last blob as source, and the header
\* Text-delta-base-md5 holds their digest (ok) or another.
\* Text-content-md5 holds the digest of the buffer t.
DeltaNode(action, sk, s, ok, d, t) ==
    [action |-> action, sink |-> sk,
     source |-> IF action = "M" THEN s ELSE << >>,
     basehash |-> IF action = "M" /\ ~ok THEN md5(<<0>>)
                  ELSE IF action = "M" THEN md5(s) ELSE md5(<< >>),
     content |-> d, hash |-> md5(t)]

DeltaInit ==
    /\ \E action \in {"A", "M"}, sk \in {"file", "pipe"}, s \in Data,
          ok \in BOOLEAN, d \in Deltas, t \in Data :
           node = DeltaNode(action, sk, s, ok, d, t)
    /\ target = None
    /\ proc = None
    /\ value = None
    /\ branches = RangesInitBranches
    /\ ignore = DefaultConfig.ignore
    /\ git_svn = DefaultConfig.git_svn
    /\ author_map = DefaultConfig.author_map
    /\ export_copies = DefaultConfig.export_copies
    /\ known = EmptyKnown
    /\ svnlog = << >>
    /\ dump = << >>
    /\ dumppos = 1
    /\ header = NoHeader
    /\ stream = << >>
    /\ nextmark = 1
    /\ files = << >>
    /\ filedata = << >>
    /\ filepos = 0
    /\ blobread = LBlank
    /\ pc = "delta"
    /\ git_ref = ""
    /\ queue = << >>
    /\ gitrev = None
    /\ init_export = TRUE
    /\ base_rev = 0
    /\ base_path = << >>
    /\ calls = 0
    /\ result = None
    /\ err = ""
    /\ located = << >>
    /\ pending = << >>
    /\ hist = << >>

\* The Text-delta branch of commit for the node: target is the new content
\* of the file, or an exception ends the session.
text_delta ==
    /\ pc = "delta"
    /\ target' = TextDelta(node)
    /\ err' = TextDelta(node).err
    /\ pc' = IF TextDelta(node).err = "" THEN "blob" ELSE "failed"
    /\ UNCHANGED <<config, branches, svnlog, dump, export_copies, known,
                   dumppos, header, stream, nextmark, files, filedata,
                   filepos, blobread, git_ref, queue, gitrev, init_export,
                   base_rev, base_path, calls, result, located, pending,
                   hist, node, proc, value>>

DeltaNext == text_delta

SpecDelta == DeltaInit /\ [][DeltaNext]_vars

(***************************************************************************)
(* The pipe sink (FastExportPipe)                                          *)
(***************************************************************************)

\* The scope of the sink writes up to MaxPipeLines lines after the preamble.
MaxPipeLines == 2

LFeature(name) == [op |-> "feature", name |-> name]
LDone == [op |-> "done"]
LCatBlob(mark) == [op |-> "cat-blob", mark |-> mark]

\* An exception: "" is none.  EPIPE is an EnvironmentError whose errno is
\* EPIPE, EIO one with another errno, KeyError stands for the exceptions that
\* are no EnvironmentError; SystemExit carries its code.
Exc(name) == [exc |-> name, code |-> 0]
SystemExit(code) == [exc |-> "SystemExit", code |-> code]

\* The outcomes of a write to the pipe or of the close of the child's
\* stdin, the errors the scope of the sink may end with, and the statuses
\* the child may exit with.
IOOutcomes == {"", "EPIPE", "EIO"}
ScopeErrors == {"", "KeyError", "EPIPE", "EIO"}
ExitStatuses == {0, 1, 2}

\* Popen(importer, stdin=PIPE, stdout=PIPE): returncode is None (-1 here)
\* until wait() has returned.
Popen == [stdin |-> "open", stdout |-> "open", waited |-> FALSE,
          returncode |-> 0 - 1]

\* Lines 699-701 of __exit__.
ExitStatus(value1, returncode) ==
    IF (value1 = "" \/ value1 = "EPIPE") /\ returncode # 0
    THEN SystemExit(returncode)
    ELSE Exc("")

\* Lines 683-701 of __exit__: close of stdout and stdin, the wait, and the
\* exception __exit__ raises.  c is the outcome of stdin.close(), which
\* closes the descriptor whatever it raises, and rc the status of the child.
ExitClose(lines, value1, c, rc) ==
    IF c = "EIO"
    THEN [stream |-> lines,
          proc |-> [stdin |-> "closed", stdout |-> "closed",
                    waited |-> FALSE, returncode |-> 0 - 1],
          raised |-> Exc("EIO")]
    ELSE [stream |-> lines,
          proc |-> [stdin |-> "closed", stdout |-> "closed",
                    waited |-> TRUE, returncode |-> rc],
          raised |-> IF c = "EPIPE" /\ value1 = "" /\ rc = 0
                     THEN Exc("EPIPE")
                     ELSE ExitStatus(value1, rc)]

\* __exit__ writing "done" whether or not an error is in flight.
PipeDoneAlways(lines, v, d) == [lines |-> Append(lines, LDone), value |-> v]

\* Lines 678-682 of __exit__: "done" is written when no error is in flight;
\* d is the outcome of that write, and an error of it becomes value.
PipeDone(lines, v, d) ==
    IF v # "" THEN [lines |-> lines, value |-> v]
    ELSE IF d = "" THEN [lines |-> Append(lines, LDone), value |-> ""]
    ELSE [lines |-> lines, value |-> d]

PipeExitFrom(done, c, rc) == ExitClose(done.lines, done.value, c, rc)

\* FastExportPipe.__exit__(type, value, traceback) with value v.
PipeExit(lines, v, d, c, rc) == PipeExitFrom(PipeDone(lines, v, d), c, rc)

\* The exception that leaves a scope whose __exit__ returned or raised:
\* the one __exit__ raised, else the one in flight.
Leaves(raised, v) == IF raised.exc # "" THEN raised ELSE Exc(v)

\* The lines open() has written when its w-th write is the first to fail.
Preamble(w) == Take(<<LFeature("done"), LFeature("cat-blob")>>, w)

\* Lines the scope of the sink writes: of a blob, a commit, a reset and a
\* cat-blob request.
ScopeLines == {LBlob, LCommit("refs/ref"), LReset("refs/ref"), LCatBlob(1)}

PipeInit ==
    /\ node = None
    /\ target = None
    /\ proc = None
    /\ value = ""
    /\ branches = RangesInitBranches
    /\ ignore = DefaultConfig.ignore
    /\ git_svn = DefaultConfig.git_svn
    /\ author_map = DefaultConfig.author_map
    /\ export_copies = DefaultConfig.export_copies
    /\ known = EmptyKnown
    /\ svnlog = << >>
    /\ dump = << >>
    /\ dumppos = 1
    /\ header = NoHeader
    /\ stream = << >>
    /\ nextmark = 1
    /\ files = << >>
    /\ filedata = << >>
    /\ filepos = 0
    /\ blobread = LBlank
    /\ pc = "popen"
    /\ git_ref = ""
    /\ queue = << >>
    /\ gitrev = None
    /\ init_export = TRUE
    /\ base_rev = 0
    /\ base_path = << >>
    /\ calls = 0
    /\ result = None
    /\ err = Exc("")
    /\ located = << >>
    /\ pending = << >>
    /\ hist = << >>

PipeFrame ==
    UNCHANGED <<config, branches, svnlog, dump, export_copies, known, dumppos,
                header, files, filedata, filepos, blobread, git_ref, queue,
                gitrev, init_export, base_rev, base_path, calls, result,
                located, pending, node, target>>

\* The state after __exit__ has run with the outcome x and v in flight.
PipeLeft(x, v) ==
    /\ stream' = x.stream
    /\ proc' = x.proc
    /\ value' = v
    /\ err' = Leaves(x.raised, v)
    /\ pc' = "left"

\* FastExportPipe(importer), lines 668-675 and 605-612: the child is
\* started and open() writes the preamble.  The first w writes succeed;
\* when w < 2 the next one raises e, __init__ calls __exit__ with it and
\* raises it again.
FastExportPipe(w, e, c, rc) ==
    /\ pc = "popen"
    /\ nextmark' = 1
    /\ IF w = 2
       THEN /\ stream' = Preamble(2)
            /\ proc' = Popen
            /\ pc' = "scope"
            /\ UNCHANGED <<value, err>>
       ELSE PipeLeft(PipeExit(Preamble(w), e, "", c, rc), e)
    /\ hist' = Append(hist, [op |-> "init", written |-> w])
    /\ PipeFrame

\* printf of a line inside the scope of the sink.
printf(line) ==
    /\ pc = "scope"
    /\ Len(stream) < 2 + MaxPipeLines
    /\ stream' = Append(stream, line)
    /\ hist' = Append(hist, [op |-> "printf", written |-> 1])
    /\ UNCHANGED <<proc, value, err, pc, nextmark>>
    /\ PipeFrame

\* The scope of the sink is left with v in flight: __exit__ runs; d is the
\* outcome of the write of "done" (if it is written), c of stdin.close()
\* and rc the status of the child.
exit(v, d, c, rc) ==
    /\ pc = "scope"
    /\ PipeLeft(PipeExit(stream, v, d, c, rc), v)
    /\ hist' = Append(hist, [op |-> "exit", value |-> v,
                             done |-> IF v = "" THEN d ELSE "",
                             close |-> c])
    /\ UNCHANGED nextmark
    /\ PipeFrame

PipeNext ==
    \/ \E w \in 0..2, e \in IOOutcomes \ {""}, c \in IOOutcomes,
          rc \in ExitStatuses :
           FastExportPipe(w, e, c, rc)
    \/ \E line \in ScopeLines : printf(line)
    \/ \E v \in ScopeErrors, d \in IOOutcomes, c \in IOOutcomes,
          rc \in ExitStatuses :
           exit(v, d, c, rc)

SpecPipe == PipeInit /\ [][PipeNext]_vars

(***************************************************************************)
(* The authors file (main, lines 92-101)                                   *)
(***************************************************************************)

\* The authors file has up to MaxLines lines of up to MaxLineLen
\* characters before the newline, and up to MaxFileLen such characters in
\* all.
MaxLines == 2
MaxLineLen == 6
MaxFileLen == 9

\* The characters of the lines, and the texts of up to n characters a line
\* may have.
LineChars == {"u", " ", "="}

LineTexts(n) == UNION {[1..k -> LineChars] : k \in 0..n}

\* The characters of the lines read so far.
RECURSIVE FileLen(_)
FileLen(texts) ==
    IF texts = << >> THEN 0 ELSE Len(Head(texts)) + FileLen(Tail(texts))

\* The characters the next line may have.
LineRoom(texts) ==
    IF MaxFileLen - FileLen(texts) < MaxLineLen
    THEN MaxFileLen - FileLen(texts)
    ELSE MaxLineLen

\* The separator " = ".
AuthorSep == <<" ", "=", " ">>

\* The greatest position at or before i where sep occurs in s, 0 if none.
RECURSIVE FindBack(_, _, _)
FindBack(s, sep, i) ==
    IF i < 1 THEN 0
    ELSE IF SubSeq(s, i, i + Len(sep) - 1) = sep THEN i
    ELSE FindBack(s, sep, i - 1)

\* The least position at or after i where sep occurs in s, 0 if none.
RECURSIVE FindFrom(_, _, _)
FindFrom(s, sep, i) ==
    IF i + Len(sep) - 1 > Len(s) THEN 0
    ELSE IF SubSeq(s, i, i + Len(sep) - 1) = sep THEN i
    ELSE FindFrom(s, sep, i + 1)

\* The parts of s before and after the occurrence of sep at position i,
\* or s alone when i is 0.
SplitAt(s, sep, i) ==
    IF i = 0 THEN <<s>>
    ELSE <<SubSeq(s, 1, i - 1), SubSeq(s, i + Len(sep), Len(s))>>

\* s.rsplit(sep, 1)
RSplit1(s, sep) == SplitAt(s, sep, FindBack(s, sep, Len(s) - Len(sep) + 1))

\* s.split(sep, 1)
Split1(s, sep) == SplitAt(s, sep, FindFrom(s, sep, 1))

\* if line.endswith("\n"): line = line[:-1]
StripNewline(line) ==
    IF Len(line) > 0 /\ line[Len(line)] = "\n"
    THEN SubSeq(line, 1, Len(line) - 1)
    ELSE line

\* author_map[svn] = git
SetAuthor(map, svn, git) ==
    [k |-> "map",
     n |-> [a \in (DOMAIN map.n) \cup {svn} |->
               IF a = svn THEN git ELSE map.n[a]]]

\* with open(authors_file) as f: author_map = dict()
AuthorsInit ==
    /\ author_map = [k |-> "map", n |-> << >>]
    /\ ignore = DefaultConfig.ignore
    /\ git_svn = DefaultConfig.git_svn
    /\ export_copies = DefaultConfig.export_copies
    /\ UnitsIdle
    /\ branches = RangesInitBranches
    /\ known = EmptyKnown
    /\ svnlog = << >>
    /\ dump = << >>
    /\ dumppos = 1
    /\ header = NoHeader
    /\ stream = << >>
    /\ nextmark = 1
    /\ files = << >>
    /\ filedata = << >>
    /\ filepos = 0
    /\ blobread = LBlank
    /\ pc = "authors"
    /\ git_ref = ""
    /\ queue = << >>
    /\ gitrev = None
    /\ init_export = TRUE
    /\ base_rev = 0
    /\ base_path = << >>
    /\ calls = 0
    /\ result = None
    /\ err = ""
    /\ located = << >>
    /\ pending = << >>
    /\ hist = << >>

AuthorsFrame ==
    UNCHANGED <<ignore, git_svn, units, branches, svnlog, dump, export_copies,
                known, dumppos, header, stream, nextmark, files, filedata,
                filepos, blobread, git_ref, queue, gitrev, init_export,
                base_rev, base_path, result, located, pending>>

\* One turn of the loop of lines 95-99 with the parts the split gave:
\* unpacking anything but two parts raises ValueError.  after is where the
\* file is when the line was read.
AuthorLine(parts, after) ==
    IF Len(parts) # 2
    THEN /\ err' = "ValueError"
         /\ pc' = "failed"
         /\ UNCHANGED author_map
    ELSE /\ author_map' = SetAuthor(author_map, parts[1], parts[2])
         /\ pc' = after
         /\ UNCHANGED err

\* The line of the file that has the text: the last line of the file may
\* lack the newline, if it is not empty.
FileLine(text, newline) == IF newline THEN Append(text, "\n") ELSE text

\* One turn of the loop for the next line of the file.
read_line(text, newline) ==
    /\ pc = "authors"
    /\ calls < MaxLines
    /\ IF newline THEN TRUE ELSE text # << >>
    /\ calls' = calls + 1
    /\ hist' = Append(hist, text)
    /\ AuthorLine(Split1(StripNewline(FileLine(text, newline)), AuthorSep),
                  IF newline THEN "authors" ELSE "eof")
    /\ AuthorsFrame

\* The file ends: the map is the one the Exporter gets.
authors_end ==
    /\ pc = "authors"
    /\ pc' = "eof"
    /\ UNCHANGED <<author_map, err, calls, hist>>
    /\ AuthorsFrame

AuthorsNext ==
    \/ \E text \in LineTexts(LineRoom(hist)), newline \in BOOLEAN :
           read_line(text, newline)
    \/ authors_end

SpecAuthors == AuthorsInit /\ [][AuthorsNext]_vars

(***************************************************************************)
(* ExportRevs on its own                                                   *)
(***************************************************************************)

\* The paths ExportRevs is called with.
RevsPaths == {PRoot, PT, PTF, PTX}

RevsInit ==
    /\ svnlog \in {LogOf(h) : h \in Histories}
    /\ ignore = DefaultConfig.ignore
    /\ git_svn = DefaultConfig.git_svn
    /\ author_map = DefaultConfig.author_map
    /\ export_copies = DefaultConfig.export_copies
    /\ UnitsIdle
    /\ branches = RangesInitBranches
    /\ known = EmptyKnown
    /\ dump = << >>
    /\ dumppos = 1
    /\ header = NoHeader
    /\ stream = << >>
    /\ nextmark = 1
    /\ files = << >>
    /\ filedata = << >>
    /\ filepos = 0
    /\ blobread = LBlank
    /\ pc = "revs"
    /\ git_ref = ""
    /\ queue = << >>
    /\ gitrev = None
    /\ init_export = TRUE
    /\ base_rev = 0
    /\ base_path = << >>
    /\ calls = 0
    /\ result = None
    /\ err = ""
    /\ located = << >>
    /\ pending = << >>
    /\ hist = << >>

\* list(iter_revs(exporter, path, base, end)): queue holds what ExportRevs
\* yields.
iter_revs(path, base, end) ==
    /\ pc = "revs"
    /\ queue' = ExportRevs(svnlog, path, base, end)
    /\ hist' = <<[path |-> path, base |-> base, end |-> end]>>
    /\ pc' = "yielded"
    /\ UNCHANGED <<config, units, branches, svnlog, dump, export_copies,
                   known, dumppos, header, stream, nextmark, files, filedata,
                   filepos, blobread, git_ref, gitrev, init_export, base_rev,
                   base_path, calls, result, err, located, pending>>

RevsNext ==
    \E path \in RevsPaths, base \in (0 - 1)..MaxRev, end \in 0..(MaxRev + 1) :
        iter_revs(path, base, end)

SpecRevs == RevsInit /\ [][RevsNext]_vars

(***************************************************************************)
(* The contents of a file node (Exporter.commit, lines 314-357)            *)
(***************************************************************************)

\* Lines 316-354: the new contents of the file.  The text block of a node
\* without Text-delta: true is the contents, and no header of the node is
\* compared with it; the block of a node with Text-delta: true goes through
\* the Text-delta branch, which compares the digests.
FileTarget(textdelta, n) ==
    IF textdelta THEN TextDelta(n) ELSE [err |-> "", target |-> n.content]

\* The text block that stands for the contents new: the contents, or a
\* delta of one window that copies them from the new data.
TextBlock(textdelta, new) ==
    IF textdelta THEN Magic \o Window(0, Len(new), <<128, Len(new)>>, new)
    ELSE new

\* A file node of the branch, added or changed, with the contents new in
\* its text block and the digest of t in Text-content-md5.
SumsInit ==
    /\ \E textdelta \in BOOLEAN, action \in {"A", "M"},
          sk \in {"file", "pipe"}, s \in Data, ok \in BOOLEAN, new \in Data,
          t \in Data :
           /\ node = DeltaNode(action, sk, s, ok, TextBlock(textdelta, new), t)
           /\ hist = <<[textdelta |-> textdelta, new |-> new]>>
    /\ target = None
    /\ proc = None
    /\ value = None
    /\ branches = RangesInitBranches
    /\ ignore = DefaultConfig.ignore
    /\ git_svn = DefaultConfig.git_svn
    /\ author_map = DefaultConfig.author_map
    /\ export_copies = DefaultConfig.export_copies
    /\ known = EmptyKnown
    /\ svnlog = << >>
    /\ dump = << >>
    /\ dumppos = 1
    /\ header = NoHeader
    /\ stream = << >>
    /\ nextmark = 1
    /\ files = << >>
    /\ filedata = << >>
    /\ filepos = 0
    /\ blobread = LBlank
    /\ pc = "node"
    /\ git_ref = ""
    /\ queue = << >>
    /\ gitrev = None
    /\ init_export = TRUE
    /\ base_rev = 0
    /\ base_path = << >>
    /\ calls = 0
    /\ result = None
    /\ err = ""
    /\ located = << >>
    /\ pending = << >>

\* Lines 314-354 for the node: target is the new contents of the file, or
\* an exception ends the session.
file_target ==
    /\ pc = "node"
    /\ target' = FileTarget(hist[1].textdelta, node)
    /\ err' = FileTarget(hist[1].textdelta, node).err
    /\ pc' = IF FileTarget(hist[1].textdelta, node).err = "" THEN "target"
             ELSE "failed"
    /\ UNCHANGED <<config, branches, svnlog, dump, export_copies, known,
                   dumppos, header, stream, nextmark, files, filedata,
                   filepos, blobread, git_ref, queue, gitrev, init_export,
                   base_rev, base_path, calls, result, located, pending,
                   hist, node, proc, value>>

\* Lines 355-357 for the node: the blob of the contents is written under
\* the path f, and the M edit joins the edits of the revision (queue).
file_edit ==
    /\ pc = "target"
    /\ LET sk == FileNode([nextmark |-> nextmark, files |-> files,
                           filedata |-> filedata, base |-> 0,
                           out |-> << >>, blob |-> 0, err |-> ""],
                          << >>, <<"f">>, target.target)
       IN  /\ stream' = sk.out
           /\ nextmark' = sk.nextmark
           /\ files' = sk.files
           /\ filedata' = sk.filedata
           /\ queue' = <<LModify(EditMode, sk.blob, <<"f">>)>>
           /\ pc' = "edited"
    /\ UNCHANGED <<config, branches, svnlog, dump, export_copies, known,
                   dumppos, header, filepos, blobread, git_ref, gitrev,
                   init_export, base_rev, base_path, calls, result, err,
                   located, pending, hist, node, target, proc, value>>

SumsNext ==
    \/ file_target
    \/ file_edit

SpecSums == SumsInit /\ [][SumsNext]_vars

(***************************************************************************)
(* main: the branch argument and the revision map (lines 71-90, 103-116)   *)
(***************************************************************************)

\* The lines a revision map file has at most.
MaxMapLines == 2

\* The values of the branch argument, "/path[@rev]": "/t@2", "t@1", "/t",
\* "/t@", "/tx@1" and "@2".
BranchArgs ==
    {<<"/", "t", "@", "2">>, <<"t", "@", "1">>, <<"/", "t">>,
     <<"/", "t", "@">>, <<"/", "t", "x", "@", "1">>, <<"@", "2">>}

\* The lines of a revision map file, "PATH@SVN-REV GIT-REV": "/t@1 g",
\* "t@2 g" and "/tx@1 g" with their newline, "/tx@1 g" without (a last
\* line), and an empty line.
MapLines ==
    {<<"/", "t", "@", "1", " ", "g", "\n">>,
     <<"t", "@", "2", " ", "g", "\n">>,
     <<"/", "t", "x", "@", "1", " ", "g", "\n">>,
     <<"/", "t", "x", "@", "1", " ", "g">>,
     <<"\n">>}

\* The rev_map argument: None, or the file of that name with its lines.
RevMapFiles ==
    {None} \cup {[k |-> "file", n |-> f] :
                    f \in UNION {[1..n -> MapLines] : n \in 0..MaxMapLines}}

\* int(s) for a string of the model: the value of its decimal digits;
\* ValueError (ok is FALSE) for the empty string and for any other
\* character.
Digits == <<"0", "1", "2", "3", "4", "5", "6", "7", "8", "9">>

IsDigit(c) == \E d \in 1..Len(Digits) : Digits[d] = c

DigitValue(c) == (CHOOSE d \in 1..Len(Digits) : Digits[d] = c) - 1

RECURSIVE IntOf(_, _)
IntOf(s, acc) ==
    IF s = << >> THEN acc
    ELSE IntOf(Tail(s), acc * 10 + DigitValue(Head(s)))

int(s) ==
    IF s = << >> \/ \E i \in 1..Len(s) : ~IsDigit(s[i])
    THEN [ok |-> FALSE, i |-> 0]
    ELSE [ok |-> TRUE, i |-> IntOf(s, 0)]

\* s.rstrip("\n")
RECURSIVE RStripNewline(_)
RStripNewline(s) ==
    IF s # << >> /\ s[Len(s)] = "\n"
    THEN RStripNewline(SubSeq(s, 1, Len(s) - 1))
    ELSE s

\* rev_map_data[branch][svnrev] = gitrev, the dictionaries being a set of
\* entries with one entry for a branch and revision.
SetRev(data, branch, svnrev, rev) ==
    {e \in data : e.branch # branch \/ e.svnrev # svnrev}
    \cup {[branch |-> branch, svnrev |-> svnrev, gitrev |-> rev]}

\* main is called.  hist holds its arguments; base_path and base_rev are
\* its locals branch and peg_rev, located is its local file (the name of
\* the output file at first), queue the lines of the revision map not read
\* yet, pending is rev_map_data and result the arguments of export.
MainInit ==
    /\ \E arg \in BranchArgs, importer \in BOOLEAN, rev_map \in RevMapFiles :
           hist = <<[branch |-> arg, importer |-> importer,
                     rev_map |-> rev_map]>>
    /\ pc = "main"
    /\ base_path = << >>
    /\ base_rev = 0
    /\ located = [k |-> "str"]
    /\ queue = << >>
    /\ pending = {}
    /\ result = None
    /\ err = ""
    /\ git_ref = "refs/ref"
    /\ UnitsIdle
    /\ branches = << >>
    /\ ignore = DefaultConfig.ignore
    /\ git_svn = DefaultConfig.git_svn
    /\ author_map = DefaultConfig.author_map
    /\ export_copies = DefaultConfig.export_copies
    /\ known = EmptyKnown
    /\ svnlog = << >>
    /\ dump = << >>
    /\ dumppos = 1
    /\ header = NoHeader
    /\ stream = << >>
    /\ nextmark = 1
    /\ files = << >>
    /\ filedata = << >>
    /\ filepos = 0
    /\ blobread = LBlank
    /\ gitrev = None
    /\ init_export = TRUE
    /\ calls = 0

\* What no step of main changes.
MainFrame ==
    UNCHANGED <<config, units, branches, svnlog, dump, export_copies, known,
                dumppos, header, stream, nextmark, files, filedata, filepos,
                blobread, git_ref, gitrev, init_export, calls, hist>>

\* main raises.
MainRaise(e) ==
    /\ pc' = "failed"
    /\ err' = e
    /\ UNCHANGED <<base_path, base_rev, located, queue, pending, result>>

\* Lines 71-81: the branch argument is split at its last "@".  The name
\* INVALID_REVNUM of lines 77 and 79 is not defined in the module.
parse_branch ==
    /\ pc = "main"
    /\ IF Len(RSplit1(hist[1].branch, <<"@">>)) = 1
       THEN MainRaise("NameError")
       ELSE IF RSplit1(hist[1].branch, <<"@">>)[2] = << >>
       THEN MainRaise("NameError")
       ELSE IF ~int(RSplit1(hist[1].branch, <<"@">>)[2]).ok
       THEN MainRaise("ValueError")
       ELSE /\ base_rev' = int(RSplit1(hist[1].branch, <<"@">>)[2]).i
            /\ base_path' = LStripSlash(RSplit1(hist[1].branch, <<"@">>)[1])
            /\ pc' = "rev_map"
            /\ err' = ""
            /\ UNCHANGED <<located, queue, pending, result>>
    /\ MainFrame

\* Lines 83-85: without a revision map the loop is passed over; with one
\* the file is opened under the name file.
open_rev_map ==
    /\ pc = "rev_map"
    /\ IF hist[1].rev_map.k = None.k
       THEN /\ pc' = "output"
            /\ UNCHANGED <<located, queue>>
       ELSE /\ pc' = "lines"
            /\ located' = [k |-> "TextIOWrapper"]
            /\ queue' = hist[1].rev_map.n
    /\ UNCHANGED <<base_path, base_rev, pending, result, err>>
    /\ MainFrame

\* Lines 86-90 for the parts of one line: the path before the last "@" is
\* assigned to branch.
MapEntry(parts) ==
    IF Len(parts) = 1 THEN MainRaise("ValueError")
    ELSE IF Len(RSplit1(parts[1], <<"@">>)) = 1 THEN MainRaise("ValueError")
    ELSE IF ~int(RSplit1(parts[1], <<"@">>)[2]).ok THEN MainRaise("ValueError")
    ELSE /\ base_path' = RSplit1(parts[1], <<"@">>)[1]
         /\ pending' = SetRev(pending, RSplit1(parts[1], <<"@">>)[1],
                              int(RSplit1(parts[1], <<"@">>)[2]).i, parts[2])
         /\ queue' = Tail(queue)
         /\ pc' = "lines"
         /\ UNCHANGED <<base_rev, located, result, err>>

\* One pass of the loop of lines 86-90.
read_map_line ==
    /\ pc = "lines"
    /\ queue # << >>
    /\ MapEntry(RSplit1(RStripNewline(Head(queue)), <<" ">>))
    /\ MainFrame

\* The file has no more lines.
end_rev_map ==
    /\ pc = "lines"
    /\ queue = << >>
    /\ pc' = "output"
    /\ UNCHANGED <<base_path, base_rev, located, queue, pending, result, err>>
    /\ MainFrame

\* Lines 103-116 (no authors file): the sink is made, from the importer or
\* from the local file, which open does not take when it is a file object,
\* and export is called with the locals.
call_export ==
    /\ pc = "output"
    /\ IF ~hist[1].importer /\ located.k # "str"
       THEN MainRaise("TypeError")
       ELSE /\ result' = [git_ref |-> git_ref, branch |-> base_path,
                          rev |-> base_rev]
            /\ pc' = "exported"
            /\ UNCHANGED <<base_path, base_rev, located, queue, pending, err>>
    /\ MainFrame

MainNext ==
    \/ parse_branch
    \/ open_rev_map
    \/ read_map_line
    \/ end_rev_map
    \/ call_export

SpecMain == MainInit /\ [][MainNext]_vars

(***************************************************************************)
(* Claims about the file sink                                              *)
(***************************************************************************)

\* The blob operations of hist that returned the mark.
BlobEvents(mark) ==
    {i \in 1..Len(hist) : hist[i].ev = "blob" /\ hist[i].mark = mark}

\* The bytes passed to the most recent blob call that returned the mark.
LastBytes(mark) == hist[CHOOSE i \in BlobEvents(mark) :
                            \A j \in BlobEvents(mark) : j <= i].buf

\* C11: whenever cat_blob(mark) has just been read on the file sink, it
\* yielded exactly the bytes passed to the most recent blob call that
\* returned that mark, whatever blobs and other records were written before.
C11_CatBlobLatestBytes ==
    (hist # << >> /\ hist[Len(hist)].ev = "read")
        => blobread = LRaw(LastBytes(hist[Len(hist)].mark))

\* The (prefix, path) pairs a blob was recorded for.
Recorded ==
    {<<hist[i].prefix, hist[i].path>> :
        i \in {j \in 1..Len(hist) : hist[j].ev = "blob"
                                     /\ hist[j].prefix # << >>}}

\* The bytes last written for the path while the branch was exported.
LastWritten(prefix, path) ==
    LET W == {i \in 1..Len(hist) : /\ hist[i].ev = "blob"
                                   /\ hist[i].prefix = prefix
                                   /\ hist[i].path = path}
    IN  hist[CHOOSE i \in W : \A j \in W : j <= i].buf

\* C12: the file state is kept for each exported branch: the delta source
\* fetched for a recorded file of a branch (the blob under the mark kept
\* for its path) is the content last written for that path of that branch,
\* never that of the same relative path of another branch.
C12_FileStatePerBranch ==
    pc = "sink" =>
        \A e \in Recorded :
            CatBlob(stream, filedata, FileMark(files, e[2])).cell
                = LRaw(LastWritten(e[1], e[2]))

(***************************************************************************)
(* Claims about the records of a commit                                    *)
(***************************************************************************)

EndsWith(s, t) ==
    Len(t) <= Len(s) /\ SubSeq(s, Len(s) - Len(t) + 1, Len(s)) = t

\* Whether the dump sets svn:executable on the file with this
\* branch-relative path (no revision of a history takes it away again).
HasExecutable(rel) ==
    \E i \in 1..Len(dump) :
        /\ dump[i].rec = "node"
        /\ dump[i].proplen > 0
        /\ dump[i].body[1] = PROP_EXECUTABLE
        /\ EndsWith(<<"/">> \o dump[i].path, <<"/">> \o rel)

\* The M edits written to the stream.
ModifyLines == {i \in 1..Len(stream) : stream[i].op = "M"}

\* C13: every M edit carries mode 755 if the file has the svn:executable
\* property set and mode 644 otherwise.
C13_ModeFollowsExecutable ==
    \A i \in ModifyLines :
        stream[i].mode = IF HasExecutable(stream[i].path) THEN "755"
                         ELSE "644"

\* The author the log gives for revision r, "(no author)" if it has none.
LogAuthor(r) ==
    LET a == svnlog[CHOOSE k \in 1..Len(svnlog) :
                        svnlog[k].revision = r].author
    IN  IF a = "" THEN "(no author)" ELSE a

\* C14: the committer line of every commit record holds the entry of the
\* author map for the author when a map is configured, and otherwise
\* "<author> <<author>@<uuid>>", the author being the one of the log entry
\* or "(no author)".
C14_CommitterIdentity ==
    \A i \in CommitEvents :
        LET author == LogAuthor(hist[i].rev)
        IN  /\ Cardinality(LinesOf(i, "committer")) = 1
            /\ \A j \in LinesOf(i, "committer") :
                   IF author_map.k = "map"
                   THEN /\ author \in DOMAIN author_map.n
                        /\ stream[j].ident = author_map.n[author]
                   ELSE /\ stream[j].ident.name = author
                        /\ stream[j].ident.email = <<author, "uuid">>

\* A revision of author "user" was committed with the author map of
\* test_authors, after one whose entry has no author raised KeyError in
\* another session (the map has no "(no author)").
C14_Witness ==
    /\ author_map.k = "map"
    /\ \E i \in CommitEvents :
           /\ LogAuthor(hist[i].rev) = "user"
           /\ \E j \in LinesOf(i, "committer") :
                  stream[j].ident = [name |-> "user", email |-> <<"user">>]

\* The trailer "git-svn-id: <root><path>@<svnrev> <uuid>" of entry i of
\* hist, with the empty root and the uuid of the sessions: the path of the
\* segment the revision was visited in (nothing for the root branch) and
\* the revision.
TrailerOf(i) ==
    <<IF hist[i].path = << >> THEN << >> ELSE <<"/">> \o hist[i].path,
      hist[i].rev>>

InIgnoreSet(rel) ==
    \E k \in 1..Len(ignore) :
        rel = ignore[k] \/ StartsWith(rel, ignore[k] \o <<"/">>)

\* The files revision r adds or changes below the prefix of branch b that
\* are not in the ignore set, as branch-relative paths.
KeptFiles(r, b) ==
    LET prefix == IF b = << >> THEN <<"/">> ELSE <<"/">> \o b \o <<"/">>
        els == LogPaths(r)
    IN  {SubSeq(els[k].text, Len(prefix) + 1, Len(els[k].text)) :
            k \in {n \in 1..Len(els) :
                      /\ els[n].text \in FilePaths
                      /\ els[n].action \in {"A", "M"}
                      /\ StartsWith(els[n].text, prefix)
                      /\ ~InIgnoreSet(SubSeq(els[n].text, Len(prefix) + 1,
                                             Len(els[n].text)))}}

CallEvents == {k \in 1..Len(hist) : hist[k].ev = "call"}
Covers(c, r) == c.rev = NoRev \/ c.rev >= r

\* The <path> elements the log gives for revision r.
LogEls(r) == {LogPaths(r)[n] : n \in 1..Len(LogPaths(r))}

\* Revision r is in a run of the index of branch b.
KnownRev(b, r) ==
    \E n \in 1..Len(known[b].starts) :
        known[b].starts[n] <= r /\ r < known[b].starts[n] + Len(known[b].runs[n])

\* The revisions that change svn:mergeinfo on /t (to "/tx:2", /tx being a
\* copy of /t@1 made in revision 2) together with a file of the branch: the
\* merged history differs from the history of the base and is the natural
\* history of /tx@2.
MergeRevs ==
    {r \in 1..MaxRev :
        /\ \E el \in LogEls(r) : el.text = PT /\ el.action = "M"
        /\ \E el \in LogEls(r) : el.text = PTF /\ el.action = "M"}

\* C17: a commit record of a revision without such a change of
\* svn:mergeinfo has no merge line, and once the calls of a session are
\* over, a merge revision that a call for the branch covered has its commit
\* record with a from line and a merge line, unless the revision map had
\* the revision already.
C17_MergeLines ==
    /\ \A i \in CommitEvents :
           hist[i].rev \notin MergeRevs => LinesOf(i, "merge") = {}
    /\ pc # "iter" =>
           \A k \in CallEvents, r \in MergeRevs :
               (hist[k].path = <<"t">> /\ Covers(hist[k], r)) =>
                   \/ \E i \in CommitEvents :
                          /\ hist[i].rev = r
                          /\ hist[i].path = <<"t">>
                          /\ LinesOf(i, "from") # {}
                          /\ LinesOf(i, "merge") # {}
                   \/ /\ \A i \in RevEvents : hist[i].rev # r
                      /\ KnownRev(<<"t">>, r)

\* The revision that created /t as it is at the peg revision of call entry
\* c (the youngest revision up to the peg whose entry lists /t itself), 0
\* if there is none; and the <path> element of /t in it.
CreationRev(c) ==
    LET rs == {r \in 1..MaxRev : /\ Covers(c, r)
                                 /\ \E el \in LogEls(r) : el.text = PT}
    IN  IF rs = {} THEN 0 ELSE CHOOSE r \in rs : \A q \in rs : q <= r
CreationEl(c) == CHOOSE el \in LogEls(CreationRev(c)) : el.text = PT

\* Call entry c exports /t as created by a copy of /tx.
CopiedFromX(c) ==
    /\ c.path = <<"t">>
    /\ CreationRev(c) # 0
    /\ CreationEl(c).action = "A"
    /\ CreationEl(c).cfpath = PTX

\* C18: in the first export of a session for a branch made by a copy of
\* /tx, with /tx@1 in the revision map, the copy revision gets the lines
\* "reset <git_ref>" and "from <git_base>", git_base being the GitRef of
\* /tx@1, and the first commit of the call has the line "from <git_base>".
C18_ResetKeepsBase ==
    \A k \in CallEvents :
        (/\ hist[k].call = 1
         /\ CopiedFromX(hist[k])
         /\ KnownRev(<<"t", "x">>, 1)
         /\ ~export_copies)
        => /\ hist[k].outcome # "raise"
           /\ \A i \in RevEvents :
                  hist[i].rev = CreationRev(hist[k]) =>
                      /\ hist[i].outcome = "reset"
                      /\ stream[hist[i].at + 1] = LReset(git_ref)
                      /\ stream[hist[i].at + 2] = LFrom(SeedRef(1))
           /\ \A i \in CommitEvents :
                  FirstCommit(i) =>
                      \E j \in LinesOf(i, "from") : stream[j].ref = SeedRef(1)

\* C19: after a call of export for /t created by a copy of /tx@1, the
\* location segments are the segment of /t and then the segment of /tx
\* ending at revision 1, youngest first, each with start <= end, and no two
\* overlap.
C19_CopySourceSegments ==
    \A k \in CallEvents :
        (CopiedFromX(hist[k]) /\ CreationEl(hist[k]).cfrev = 1)
        => /\ hist[k].outcome # "raise"
           /\ k = Len(hist) =>
                  /\ Len(located) >= 2
                  /\ located[1].path = <<"t">>
                  /\ located[1].start = CreationRev(hist[k])
                  /\ located[2].path = <<"t", "x">>
                  /\ located[2].end = 1
                  /\ \A n \in 1..Len(located) :
                         located[n].start <= located[n].end
                  /\ \A n \in 1..(Len(located) - 1) :
                         located[n + 1].end < located[n].start

(***************************************************************************)
(* Claims about RevisionSet                                                *)
(***************************************************************************)

\* C20: after any calls of add_segment on an empty RevisionSet the range
\* list of each branch is sorted by start and its ranges neither overlap
\* nor abut: prev.end + 1 < next.start for consecutive ranges.
C20_RangesApart ==
    pc = "ranges" =>
        \A b \in SetBranches :
            \A n \in 1..(Len(branches[b]) - 1) :
                branches[b][n].end + 1 < branches[b][n + 1].start

\* The RevisionSet built by add_segment from the calls of segs taken in the
\* order given by the permutation order, from its n-th place on.
RECURSIVE BuildSet(_, _, _, _)
BuildSet(set, segs, order, n) ==
    IF n > Len(segs) THEN set
    ELSE BuildSet([set EXCEPT ![segs[order[n]].branch] =
                       AddSegment(@, segs[order[n]].start, segs[order[n]].end)],
                  segs, order, n + 1)

Orderings(n) == {f \in [1..n -> 1..n] : \A i, j \in 1..n : f[i] = f[j] => i = j}

\* RevisionSet.__eq__ (line 543): the branch dictionaries compare equal.  A
\* branch never added is no key of the defaultdict, and every branch added
\* has a non-empty list, so the lists decide.
SetEq(a, b) == \A br \in SetBranches : a[br] = b[br]

\* C21: the RevisionSet built by add_segment from the segments added so far
\* equals the RevisionSet built from any other ordering of the same
\* segments.
C21_OrderIndependent ==
    pc = "ranges" =>
        \A order \in Orderings(Len(hist)) :
            SetEq(BuildSet(RangesInitBranches, hist, order, 1), branches)

DeltaApplied == pc \in {"blob", "failed"}

\* The deltas without content: the magic alone, and the magic with one
\* window that has no instruction and no new data.
EmptyDeltas == {Magic, Magic \o Window(0, 0, << >>, << >>)}

\* C23: an empty text delta (the magic and no window, or a window with no
\* instruction) applied to an empty source yields an empty target and
\* raises no error.
C23_EmptyDelta ==
    (/\ DeltaApplied
     /\ node.content \in EmptyDeltas
     /\ node.source = << >>
     /\ node.basehash = md5(<< >>)
     /\ node.hash = md5(<< >>))
    => target.err = "" /\ target.target = << >>

\* The deltas of one window with one instruction that copies the new data:
\* the length is in the low six bits of the instruction byte, or in the
\* integer after it.
NewWindows(new) ==
    {Magic \o Window(0, Len(new), <<128, Len(new)>>, new)}
    \cup {Magic \o Window(0, Len(new), <<128 + Len(new)>>, new) :
             n \in {Len(new)} \ {0}}

\* C24: a text delta of a single window with a single instruction that
\* copies the new data yields exactly the new data as the content of the
\* file, for every source and all new data.
C24_SingleNewWindow ==
    DeltaApplied =>
        \A new \in Data :
            (/\ node.content \in NewWindows(new)
             /\ node.basehash = md5(node.source)
             /\ node.hash = md5(new))
            => target.err = "" /\ target.target = new

(***************************************************************************)
(* Claims about the pipe sink                                              *)
(***************************************************************************)

\* The scope of the sink was entered and left: the exit that ended it.
ScopeExit == hist[Len(hist)]

ScopeLeft == pc = "left" /\ hist[Len(hist)].op = "exit"

\* The first two lines written to the child are the preamble, and "done"
\* is written at most once and is followed by nothing.
PreambleFirst ==
    /\ Len(stream) >= 1 => stream[1] = LFeature("done")
    /\ Len(stream) >= 2 => stream[2] = LFeature("cat-blob")
    /\ \A i \in 1..Len(stream) : stream[i] = LDone => i = Len(stream)

DoneIsLast == Len(stream) > 0 /\ stream[Len(stream)] = LDone

\* C25 as stated: the first two lines written to the child are
\* "feature done" and "feature cat-blob", before any other line; "done" is
\* the last line iff the scope of the sink is left without an error in
\* flight, and it is written at most once.
C25_DoneIffNoError ==
    /\ PreambleFirst
    /\ pc = "left" => (DoneIsLast <=> value = "")

\* C25, amended: the first two lines written to the child are
\* "feature done" and "feature cat-blob", before any other line; "done" is
\* the last line iff the scope of the sink is left without an error in
\* flight and the write of "done" raises no error, and it is written at
\* most once.
C25_DoneIffWritten ==
    /\ PreambleFirst
    /\ pc = "left" /\ hist[Len(hist)].op = "init" => ~DoneIsLast
    /\ ScopeLeft =>
           (DoneIsLast <=> (ScopeExit.value = "" /\ ScopeExit.done = ""))

\* A scope that wrote a blob line was left without error: "done" is the
\* last of four lines.
C25_Witness ==
    /\ ScopeLeft
    /\ ScopeExit.value = ""
    /\ Len(stream) = 4
    /\ stream[3] = LBlob
    /\ DoneIsLast

\* C26: when the scope of the sink is left without an error in flight and
\* the write of "done" or the close of the child's stdin raises a broken
\* pipe (and neither raises another error), no exception leaves the scope
\* iff the child exited with status zero.
C26_EpipeToleratedIffZero ==
    (/\ ScopeLeft
     /\ ScopeExit.value = ""
     /\ ScopeExit.done \in {"", "EPIPE"}
     /\ ScopeExit.close \in {"", "EPIPE"}
     /\ "EPIPE" \in {ScopeExit.done, ScopeExit.close})
    => (err = Exc("") <=> proc.returncode = 0)

\* C27: whenever control has left the scope of the sink, the child's
\* stdin and stdout are closed and the child has been waited on.
C27_ChildReleased ==
    pc = "left" =>
        /\ proc.stdin = "closed"
        /\ proc.stdout = "closed"
        /\ proc.waited

\* C28: when the child has exited with a nonzero status, the scope of the
\* sink does not complete normally, and with no error or only a broken
\* pipe in flight SystemExit with the child's status leaves it.
C28_NonzeroEscalates ==
    (ScopeLeft /\ proc.waited /\ proc.returncode # 0)
    => /\ err # Exc("")
       /\ ScopeExit.value \in {"", "EPIPE"} =>
              err = SystemExit(proc.returncode)


(***************************************************************************)
(* Claims about the authors file                                           *)
(***************************************************************************)

\* The position of the first " = " of a line that has one.
FirstSep(text) ==
    CHOOSE i \in 1..Len(text) :
        /\ SubSeq(text, i, i + 2) = AuthorSep
        /\ \A j \in 1..(i - 1) : SubSeq(text, j, j + 2) # AuthorSep

\* The text before the first " = " and all the text after it.
SvnName(text) == SubSeq(text, 1, FirstSep(text) - 1)

GitIdentity(text) == SubSeq(text, FirstSep(text) + 3, Len(text))

\* C29: after the lines read so far, the author map has exactly the SVN
\* names of the lines as keys, the name of a line being its text before
\* the first " = "; each name has the Git identity of the last line with
\* that name, the identity being all the text after the first " = ".
C29_AuthorsFile ==
    pc \in {"authors", "eof"} =>
        /\ DOMAIN author_map.n = {SvnName(hist[i]) : i \in 1..Len(hist)}
        /\ \A i \in 1..Len(hist) :
               (\A j \in (i + 1)..Len(hist) :
                    SvnName(hist[j]) # SvnName(hist[i]))
               => author_map.n[SvnName(hist[i])] = GitIdentity(hist[i])

\* The file had two lines with the same name, the second with " = " in
\* its identity and no newline, and the map has one entry.
C29_Witness ==
    /\ pc = "eof"
    /\ Len(hist) = 2
    /\ SvnName(hist[1]) = SvnName(hist[2])
    /\ GitIdentity(hist[1]) # GitIdentity(hist[2])
    /\ GitIdentity(hist[2]) = AuthorSep
    /\ Cardinality(DOMAIN author_map.n) = 1


(***************************************************************************)
(* Claims about ExportRevs                                                 *)
(***************************************************************************)

\* The entry of the log has a changed path that is the path or below it.
ChangesUnder(entry, path) ==
    \E j \in 1..Len(entry.paths) :
        entry.paths[j].text = path \/ Below(entry.paths[j].text, path)

\* The entry of the log for a revision.
EntryOf(rev) == svnlog[CHOOSE k \in 1..Len(svnlog) : svnlog[k].revision = rev]

\* C30: ExportRevs(path, base, end) yields revisions in strictly ascending
\* order, each with base < rev <= end and with a changed path that is the
\* path or below it; it yields every revision of the log in (base, end]
\* that has such a changed path; and the author it yields is
\* "(no author)" when the entry has no author element, else the one of
\* the entry.
C30_ExportRevsYields ==
    pc = "yielded" =>
        /\ \A i \in 1..(Len(queue) - 1) : queue[i].svnrev < queue[i + 1].svnrev
        /\ \A i \in 1..Len(queue) :
               /\ hist[1].base < queue[i].svnrev
               /\ queue[i].svnrev <= hist[1].end
               /\ ChangesUnder(EntryOf(queue[i].svnrev), hist[1].path)
               /\ queue[i].author =
                      IF EntryOf(queue[i].svnrev).author = ""
                      THEN "(no author)"
                      ELSE EntryOf(queue[i].svnrev).author
        /\ \A k \in 1..Len(svnlog) :
               (/\ hist[1].base < svnlog[k].revision
                /\ svnlog[k].revision <= hist[1].end
                /\ ChangesUnder(svnlog[k], hist[1].path))
               => \E i \in 1..Len(queue) : queue[i].svnrev = svnlog[k].revision

\* ExportRevs for /t yielded two revisions, one of them without author,
\* and left out a revision of the range that changes a path outside /t.
C30_Witness ==
    /\ pc = "yielded"
    /\ hist[1].path = PT
    /\ Len(queue) = 2
    /\ \E i \in 1..2 : queue[i].author = "(no author)"
    /\ \E k \in 1..Len(svnlog) :
           /\ hist[1].base < svnlog[k].revision
           /\ svnlog[k].revision <= hist[1].end
           /\ svnlog[k].paths # << >>
           /\ \A i \in 1..2 : queue[i].svnrev # svnlog[k].revision

(***************************************************************************)
(* Claims about deletions, checksums and the dump's revisions              *)
(***************************************************************************)

\* The paths, relative to the branch, that revision r deletes below the
\* branch and outside the ignore set.
DeletedBelow(r, branch) ==
    LET path == <<"/">> \o branch
        prefix == IF branch = << >> THEN path ELSE path \o <<"/">>
    IN  {SubSeq(el.text, Len(prefix) + 1, Len(el.text)) :
            el \in {e \in LogEls(r) :
                       /\ e.action = "D"
                       /\ Len(e.text) > Len(prefix)
                       /\ Take(e.text, Len(prefix)) = prefix
                       /\ ~InIgnoreSet(SubSeq(e.text, Len(prefix) + 1,
                                              Len(e.text)))}}

\* C31: for every revision export decided to commit, the call of commit
\* does not raise because of a deleted path, and every path the revision
\* deletes below the branch prefix and outside the ignore set has exactly
\* one line "D <rel>" among the lines written for the revision.
C31_DeleteEdits ==
    \A i \in RevEvents :
        (hist[i].decided /\ DeletedBelow(hist[i].rev, hist[i].path) # {}) =>
            /\ hist[i].outcome # "raise"
            /\ \A rel \in DeletedBelow(hist[i].rev, hist[i].path) :
                   Cardinality({j \in LinesOf(i, "D") : stream[j].path = rel})
                       = 1

\* A digest of the node's headers differs from the one it is checked
\* against: Text-content-md5 from the digest of the new contents, or
\* Text-delta-base-md5 of a changed file's delta from the digest of the
\* stored source.
DigestMismatch ==
    \/ node.hash # md5(hist[1].new)
    \/ /\ hist[1].textdelta
       /\ node.action = "M"
       /\ node.basehash # md5(node.source)

\* C32: once the text block of a file node was handled, if its
\* Text-content-md5 differs from the digest of its new contents (delta or
\* literal), or its Text-delta-base-md5 from the digest of the stored
\* source, the export has failed and neither a blob nor an M edit was
\* written for the file.
C32_DigestMismatchAborts ==
    (pc # "node" /\ DigestMismatch) =>
        /\ pc = "failed"
        /\ err # ""
        /\ stream = << >>
        /\ queue = << >>

\* The revision numbers of the revision records the dump still holds: the
\* record kept in _header, if any, and the records not read yet.
RevisionsLeft ==
    {dump[k].number : k \in {n \in dumppos..Len(dump) : dump[n].rec = "rev"}}
    \cup (IF header.rec = "rev" THEN {header.number} ELSE {})

\* The revision numbers of the revision records read from the dump so far.
RevisionsRead ==
    {dump[k].number : k \in {n \in 1..(dumppos - 1) : dump[n].rec = "rev"}}

\* The lines of a stream that open a commit record.
CommitLinesIn(s) == {j \in 1..Len(s) : s[j].op = "commit"}

\* The step calls commit for the revision at the head of the queue, and
\* the revision deletes and replaces nothing, so that commit gets to
\* reading the dump.
ScanStep ==
    /\ pc = "iter"
    /\ queue # << >>
    /\ Len(hist') = Len(hist) + 1
    /\ hist'[Len(hist')].ev = "rev"
    /\ hist'[Len(hist')].decided
    /\ \A el \in LogEls(Head(queue).svnrev) : el.action \notin {"D", "R"}

\* C33: the dump is read forward only.  When commit(rev) is called and the
\* dump holds no revision record rev any more (the next revision record
\* is a later one, or the dump ends), the call fails with the
\* missing-revision error (LookupError), no commit record is written and
\* the index is unchanged; and a commit is emitted only for a revision that
\* is not lower than any revision already read from the dump.
C33_ForwardOnly ==
    [][ScanStep =>
          /\ Head(queue).svnrev \notin RevisionsLeft =>
                 /\ pc' = "failed"
                 /\ err' = "LookupError"
                 /\ CommitLinesIn(stream') = CommitLinesIn(stream)
                 /\ known' = known
          /\ hist'[Len(hist')].outcome = "commit" =>
                 \A r \in RevisionsRead : r <= Head(queue).svnrev]_vars

(***************************************************************************)
(* Claims about unknown authors, merges and the plan of an export          *)
(***************************************************************************)

\* Entry i of hist is a call of commit that got as far as writing a commit
\* record (it did not return without edits) in a session with an author
\* map that lacks the author of the revision.
UnknownAuthor(i) ==
    /\ hist[i].ev = "rev"
    /\ hist[i].decided
    /\ hist[i].outcome # "skip"
    /\ author_map.k # None.k
    /\ LogAuthor(hist[i].rev) \notin DOMAIN author_map.n

\* The call aborted at entry i: it raised, and nothing was visited after.
AbortedAt(i) ==
    /\ hist[i].outcome = "raise"
    /\ i = Len(hist)
    /\ pc = "failed"
    /\ ~KnownRev(hist[i].path, hist[i].rev)

\* C34: a commit for a revision whose author is not a key of the
\* configured author map aborts the export: the revision is not recorded
\* in the index, no later revision is visited, and no line of a commit
\* record (commit, mark) was written for the revision.
C34_UnknownAuthorAborts ==
    \A i \in 1..Len(hist) :
        UnknownAuthor(i) =>
            /\ AbortedAt(i)
            /\ LinesOf(i, "commit") = {}
            /\ \A j \in LinesOf(i, "mark") : stream[j - 1].op = "blob"

\* Once the calls of a session are over, every merge revision r of /t that
\* a call covered had its merge parent (svn:mergeinfo is "/tx:2") exported
\* by a recursive call of export for (tx, 2), with 2 < r, which recorded
\* /tx@2 in the index.
MergeParentsExported ==
    pc # "iter" =>
        \A k \in CallEvents, r \in MergeRevs :
            (hist[k].path = <<"t">> /\ Covers(hist[k], r)) =>
                /\ 2 < r
                /\ KnownRev(<<"t", "x">>, 2)

\* An export call that is in its loops returns or fails.
ExportTerminates == (pc = "iter") ~> (pc \in {"idle", "failed"})

StartedWithPlan ==
    /\ hist # << >>
    /\ hist[Len(hist)].ev = "call"
    /\ hist[Len(hist)].outcome = "plan"
    /\ pending.segments # << >>

\* C36 as stated: when an export starts with a non-empty plan,
\* init_export is false if the planner found a resume anchor and true if
\* it found none.
C36_InitExportIffNoAnchor ==
    StartedWithPlan => (init_export = ~pending.anchored)

\* C36, amended: when an export starts with a non-empty plan, init_export
\* is true whether or not the planner found a resume anchor, and for every
\* revision the call visits init_export is true exactly while the call has
\* emitted no commit.
C36_InitExportAtStart ==
    /\ StartedWithPlan => init_export = TRUE
    /\ \A i \in RevEvents :
           hist[i].init = (\A j \in CommitEvents :
                               hist[j].call = hist[i].call => j >= i)

\* An export has started with a plan of segments and a resume anchor.
C36_Witness ==
    /\ StartedWithPlan
    /\ pending.anchored
    /\ pending.base_rev # 0
    /\ init_export = TRUE

\* The runs of the index of branch b that hold revision r.
RunsHolding(b, r) ==
    {n \in 1..Len(known[b].starts) :
        known[b].starts[n] <= r /\ r < known[b].starts[n] + Len(known[b].runs[n])}

\* A call of export has just got past its planner.
Planned ==
    /\ hist # << >>
    /\ hist[Len(hist)].ev = "call"
    /\ hist[Len(hist)].outcome = "plan"

ReturnEvents == {i \in 1..Len(hist) : hist[i].ev = "return"}

\* Calls c and d of the session have the same arguments.
SameCall(c, d) ==
    /\ CallEvent(c).rev = CallEvent(d).rev
    /\ CallEvent(c).path = CallEvent(d).path

PegSegment == located[1]

\* Run n of the index of the peg segment's path holds the peg revision.
HoldsPeg(n) ==
    /\ known[PegSegment.path].starts[n] <= PegSegment.end
    /\ PegSegment.end <= LastRev(PegSegment.path, n)

\* Run n of the index of the peg segment's path starts at or before the peg
\* revision and its last revision is at or after the start of the segment.
ReachesSegment(n) ==
    /\ known[PegSegment.path].starts[n] <= PegSegment.end
    /\ PegSegment.start <= LastRev(PegSegment.path, n)

\* The GitRef of the last revision of run n of the peg segment's path.
LastGitRef(n) ==
    known[PegSegment.path].runs[n][Len(known[PegSegment.path].runs[n])]

\* The call whose planner ran last has returned without visiting a
\* revision.
ReturnedAtOnce ==
    /\ Len(hist) >= 2
    /\ hist[Len(hist)].ev = "return"
    /\ hist[Len(hist) - 1].ev = "call"

\* What C39 says of run n: the plan is empty and gitrev is the GitRef of
\* the last revision of the run when the planner has run, and a call that
\* has returned at once wrote nothing and returned that GitRef.
NothingToExport(n) ==
    /\ Planned => /\ pending.segments = << >>
                  /\ queue = << >>
                  /\ gitrev = LastGitRef(n)
    /\ hist[Len(hist)].ev = "return" =>
           /\ ReturnedAtOnce
           /\ Len(stream) = hist[Len(hist) - 1].at
           /\ result = LastGitRef(n)

\* The planner of a call has run and the call has visited no revision yet,
\* so that the index is the one the call began with.
CallBegun ==
    /\ hist # << >>
    /\ located # << >>
    /\ \/ Planned
       \/ /\ hist[Len(hist)].ev = "return"
          /\ \A e \in RevEvents : hist[e].call # hist[Len(hist)].call

ArgumentBranch(arg) ==
    LStripSlash(IF FindBack(arg, <<"@">>, Len(arg)) = 0 THEN arg
                ELSE SubSeq(arg, 1, FindBack(arg, <<"@">>, Len(arg)) - 1))

\* C40: when main has called export, the branch it passed is the branch
\* argument with its leading "/" and its "@rev" suffix removed, whatever
\* the revision map file holds.
C40_BranchArgumentExported ==
    pc = "exported" => result.branch = ArgumentBranch(hist[1].branch)

====
